---- MODULE Spec2Model ----
(***************************************************************************)
(* Model of the jpf4826_driver crate: the Jpf4826Client (client.rs), its   *)
(* two backends (the in-memory MockBackend and the ModbusRtuClient of      *)
(* modbus.rs), the register map (registers.rs) and the value codec         *)
(* (conversions.rs).  The controller is a table of 16-bit registers; the   *)
(* RealModbus backend reaches it through frames addressed to the slave id  *)
(* its tokio-modbus context was attached to.                               *)
(***************************************************************************)
EXTENDS Integers, Sequences, FiniteSets, TLC

\* ---------------------------------------------------------------- bounds
\* set_addr inputs are 0..MaxAddr together with the boundary values 254, 255
MaxAddr == 2
\* set_timeout inputs are 1..MaxTimeout seconds
MaxTimeout == 1
\* set_fan_speed inputs are 0..MaxSpeed together with 100, 101, 255
MaxSpeed == 1
\* set_fan_count inputs are 0..MaxCount together with 255
MaxCount == 5
MaxRead == 3
MaxRegisterValue == 7
\* threshold inputs are 0..MaxTemp together with -21, -20, 30, 50, 120, 121
MaxTemp == 0
\* fan_speed inputs are 0..MaxFanIndex together with 255
MaxFanIndex == 5

\* ------------------------------------------------- registers.rs constants
CurrentTemperature == 0
FanStatus == 1
ModbusAddress == 2
ManualSpeedControl == 3
CombinedTemperature == 4
WorkMode == 5
FanQuantity == 6
Fan1Speed == 7
Fan2Speed == 8
Fan3Speed == 9
Fan4Speed == 10
PwmFrequency == 11
StartTemperature == 12
FullSpeedTemperature == 13
FanFaultCode == 14
ResetController == 32

RegAddrs == (0..14) \cup {ResetController}

\* ------------------------------------------------------- other constants
TEMPERATURE_OFFSET == 40
DEFAULT_TIMEOUT == 10

\* ------------------------------------------------ integer casts (Rust `as`)
AsI16(u) == IF u >= 32768 THEN u - 65536 ELSE u
AsU16(i) == i % 65536
AsU8(i) == i % 256
\* i16 arithmetic result as a release build computes it (two's complement wrap)
WrapI16(x) == ((x + 32768) % 65536) - 32768

\* ------------------------------------------------------- conversions.rs
\* celsius_to_register adding the offset after the cast to u16
celsius_to_register_Unsigned(celsius) == AsU16(celsius) + TEMPERATURE_OFFSET

celsius_to_register(celsius) == AsU16(WrapI16(celsius + TEMPERATURE_OFFSET))

\* `celsius + 40` leaves the i16 range: a debug build panics there
CelsiusToRegisterOverflows(celsius) == celsius + TEMPERATURE_OFFSET > 32767

register_to_celsius(register) == WrapI16(AsI16(register) - TEMPERATURE_OFFSET)

\* `register as i16 - 40` leaves the i16 range: a debug build panics there
RegisterToCelsiusOverflows(register) ==
    AsI16(register) - TEMPERATURE_OFFSET < -32768

\* Rust's integer `/`: the quotient rounded toward zero
TruncDiv(x, y) == IF x >= 0 THEN x \div y ELSE -((-x) \div y)

\* celsius_to_fahrenheit with the quotient rounded down
celsius_to_fahrenheit_Floor(celsius) ==
    WrapI16((WrapI16(celsius * 9) \div 5) + 32)

celsius_to_fahrenheit(celsius) ==
    WrapI16(TruncDiv(WrapI16(celsius * 9), 5) + 32)

\* `celsius * 9` or the sum leaves the i16 range: a debug build panics
CelsiusToFahrenheitOverflows(celsius) ==
    \/ celsius * 9 < -32768 \/ celsius * 9 > 32767
    \/ TruncDiv(celsius * 9, 5) + 32 > 32767

parse_combined_temperature(combined) ==
    LET high_byte == (combined \div 256) % 256
        low_byte == combined % 256
    IN  <<register_to_celsius(high_byte), register_to_celsius(low_byte)>>

\* encode_combined_temperature with the two bytes in each other's place
encode_combined_temperature_Swapped(start, full) ==
    LET start_register == AsU8(celsius_to_register(start))
        full_register == AsU8(celsius_to_register(full))
    IN  AsU16(full_register * 256) + start_register

\* `(start_register as u16) << 8 | full_register as u16`: the two operands
\* share no bit, so the `|` is their sum
encode_combined_temperature(start, full) ==
    LET start_register == AsU8(celsius_to_register(start))
        full_register == AsU8(celsius_to_register(full))
    IN  AsU16(start_register * 256) + full_register

\* ------------------------------------------------------------- the state
VARIABLES
    backend,        \* "None" before construction, then "Mock" or "RealModbus"
    regs,           \* the controller's register table
    slave_addr,     \* the backend's cached bus address (Cell<u8>)
    context_slave,  \* slave id the tokio-modbus context was attached to
    timeout,        \* ModbusRtuClient.timeout, in seconds
    port_opened,    \* whether SerialStream::open has been called
    calls,          \* the low-level read/write exchanges of the last operation
    result,         \* the last operation, its arguments and its Result
    last_set,       \* address of the latest successful set_addr, 0 if none
    inflight        \* the exchange awaited under tokio::time::timeout

vars == <<backend, regs, slave_addr, context_slave, timeout, port_opened,
          calls, result, last_set, inflight>>

\* no exchange is awaited
NoFlight ==
    [kind |-> "none", addr |-> 0, arg |-> 0, elapsed |-> 0, deadline |-> 0]

Res(op, a, b, status, val) ==
    [op |-> op, a |-> a, b |-> b, status |-> status, val |-> val]

\* MockController::set_defaults; an absent key reads as 0
DefaultRegs ==
    [a \in RegAddrs |->
        CASE a = CurrentTemperature -> 71
          [] a = FanStatus -> 15
          [] a = ModbusAddress -> 1
          [] a = ManualSpeedControl -> 65535
          [] a = CombinedTemperature -> 18010
          [] a = WorkMode -> 1
          [] a = FanQuantity -> 4
          [] a \in Fan1Speed..Fan4Speed -> 1400
          [] a = PwmFrequency -> 5
          [] a = StartTemperature -> 70
          [] a = FullSpeedTemperature -> 90
          [] a = FanFaultCode -> 15
          [] OTHER -> 0]

Init ==
    /\ backend = "None"
    /\ regs = DefaultRegs
    /\ slave_addr = 0
    /\ context_slave = 0
    /\ timeout = 0
    /\ port_opened = FALSE
    /\ calls = <<>>
    /\ result = Res("none", 0, 0, "Ok", <<>>)
    /\ last_set = 0
    /\ inflight = NoFlight

\* ------------------------------------------------------- construction
\* Jpf4826Client::new followed by ModbusRtuClient::new
New(addr, open_ok) ==
    /\ backend = "None"
    /\ calls' = <<>>
    /\ UNCHANGED <<regs, last_set, inflight>>
    /\ IF ~(addr \in 1..254)
       THEN /\ result' = Res("new", addr, 0, "InvalidAddress", <<>>)
            /\ UNCHANGED <<backend, slave_addr, context_slave, timeout,
                           port_opened>>
       ELSE /\ port_opened' = TRUE
            /\ IF open_ok
               THEN /\ backend' = "RealModbus"
                    /\ context_slave' = addr
                    /\ slave_addr' = addr
                    /\ timeout' = DEFAULT_TIMEOUT
                    /\ result' = Res("new", addr, 0, "Ok", <<>>)
               ELSE /\ result' = Res("new", addr, 0, "Serial", <<>>)
                    /\ UNCHANGED <<backend, slave_addr, context_slave,
                                   timeout>>

\* Jpf4826Client::new_mock
NewMock(addr) ==
    /\ backend = "None"
    /\ backend' = "Mock"
    /\ slave_addr' = addr
    /\ calls' = <<>>
    /\ result' = Res("new_mock", addr, 0, "Ok", <<>>)
    /\ UNCHANGED <<regs, context_slave, timeout, port_opened, last_set,
                   inflight>>

\* ---------------------------------------------------- one frame exchange
\* The controller answers the frames addressed to the address in 0x0002.
DeviceAddr(r) == r[ModbusAddress]

\* a link error reported as a serial failure
ErrorOf_LinkAsSerial(out) ==
    IF out = "Timeout" THEN "Timeout"
    ELSE IF out = "Link" THEN "Serial" ELSE "Modbus"

ErrorOf(out) == IF out = "Timeout" THEN "Timeout" ELSE "Modbus"

\* Outcomes of ModbusRtuClient::read_holding_registers against table r:
\* the response in time, no response in time, a link error, an exception.
ReadOutcomes(r) ==
    IF backend = "Mock" THEN {"Ok"}
    ELSE IF context_slave = DeviceAddr(r)
         THEN {"Ok", "Timeout", "Link", "Exception"}
         ELSE {"Timeout", "Link"}

\* Outcomes of ModbusRtuClient::write_single_register; `applied` tells
\* whether the controller stored the value (a request whose response is
\* lost may still have been acted upon).
WriteOutcomes(r) ==
    IF backend = "Mock" THEN {[out |-> "Ok", applied |-> TRUE]}
    ELSE IF context_slave = DeviceAddr(r)
         THEN {[out |-> "Ok", applied |-> TRUE],
               [out |-> "Timeout", applied |-> TRUE],
               [out |-> "Timeout", applied |-> FALSE],
               [out |-> "Link", applied |-> TRUE],
               [out |-> "Link", applied |-> FALSE],
               [out |-> "Exception", applied |-> FALSE]}
         ELSE {[out |-> "Timeout", applied |-> FALSE],
               [out |-> "Link", applied |-> FALSE]}

Call(kind, addr, arg, out) ==
    [kind |-> kind, slave |-> context_slave, addr |-> addr, arg |-> arg,
     out |-> out]

\* `start_addr + count` in u16: past 65535 a debug build panics and a
\* release build wraps around
RangeOverflows(start_addr, count) == start_addr + count > 65535

\* MockBackend::read_registers: the range start_addr..start_addr + count,
\* empty when its end is not above its start
read_registers(r, start_addr, count) ==
    LET end == AsU16(start_addr + count)
        n == IF end > start_addr THEN end - start_addr ELSE 0
    IN  [k \in 1..n |->
            IF (start_addr + k - 1) \in DOMAIN r THEN r[start_addr + k - 1]
            ELSE 0]

\* Jpf4826Client::read
Read(r, register, count, out) ==
    [status |-> IF out = "Ok" THEN "Ok" ELSE ErrorOf(out),
     values |-> IF out = "Ok" THEN read_registers(r, register, count) ELSE <<>>,
     call |-> Call("read", register, count, out)]

\* Jpf4826Client::write
Write(r, register, value, o) ==
    [status |-> IF o.out = "Ok" THEN "Ok" ELSE ErrorOf(o.out),
     regs |-> IF o.applied THEN [r EXCEPT ![register] = value] ELSE r,
     call |-> Call("write", register, value, o.out)]

\* a client exists and awaits nothing (its operations take `&mut self`)
Ready == backend # "None" /\ inflight.kind = "none"

\* ------------------------------------------------------------- set_addr
\* ModbusRtuClient::set_slave_addr / MockBackend::set_slave_addr
set_slave_addr(addr) == slave_addr' = addr

\* set_addr updating the cache before the write is known to have succeeded
SetAddr_CacheFirst(addr) ==
    /\ Ready
    /\ UNCHANGED <<backend, context_slave, timeout, port_opened,
                   inflight>>
    /\ IF ~(addr \in 1..254)
       THEN /\ result' = Res("set_addr", addr, 0, "InvalidAddress", <<>>)
            /\ calls' = <<>>
            /\ UNCHANGED <<regs, slave_addr, last_set>>
       ELSE \E o \in WriteOutcomes(regs) :
            LET w == Write(regs, ModbusAddress, addr, o) IN
            /\ regs' = w.regs
            /\ calls' = <<w.call>>
            /\ result' = Res("set_addr", addr, 0, w.status, <<>>)
            /\ set_slave_addr(addr)
            /\ IF w.status = "Ok"
               THEN last_set' = addr
               ELSE UNCHANGED last_set

\* set_addr accepting 1..=255
SetAddr_Upto255(addr) ==
    /\ Ready
    /\ UNCHANGED <<backend, context_slave, timeout, port_opened,
                   inflight>>
    /\ IF ~(addr \in 1..255)
       THEN /\ result' = Res("set_addr", addr, 0, "InvalidAddress", <<>>)
            /\ calls' = <<>>
            /\ UNCHANGED <<regs, slave_addr, last_set>>
       ELSE \E o \in WriteOutcomes(regs) :
            LET w == Write(regs, ModbusAddress, addr, o) IN
            /\ regs' = w.regs
            /\ calls' = <<w.call>>
            /\ result' = Res("set_addr", addr, 0, w.status, <<>>)
            /\ IF w.status = "Ok"
               THEN /\ set_slave_addr(addr)
                    /\ last_set' = addr
               ELSE UNCHANGED <<slave_addr, last_set>>

\* set_addr taking a timed-out write for an applied one
SetAddr_CacheOnTimeout(addr) ==
    /\ Ready
    /\ UNCHANGED <<backend, context_slave, timeout, port_opened,
                   inflight>>
    /\ IF ~(addr \in 1..254)
       THEN /\ result' = Res("set_addr", addr, 0, "InvalidAddress", <<>>)
            /\ calls' = <<>>
            /\ UNCHANGED <<regs, slave_addr, last_set>>
       ELSE \E o \in WriteOutcomes(regs) :
            LET w == Write(regs, ModbusAddress, addr, o) IN
            /\ regs' = w.regs
            /\ calls' = <<w.call>>
            /\ result' = Res("set_addr", addr, 0, w.status, <<>>)
            /\ IF w.status \in {"Ok", "Timeout"}
               THEN /\ set_slave_addr(addr)
                    /\ last_set' = IF w.status = "Ok" THEN addr ELSE last_set
               ELSE UNCHANGED <<slave_addr, last_set>>

\* Jpf4826Client::set_addr
SetAddr(addr) ==
    /\ Ready
    /\ UNCHANGED <<backend, context_slave, timeout, port_opened,
                   inflight>>
    /\ IF ~(addr \in 1..254)
       THEN /\ result' = Res("set_addr", addr, 0, "InvalidAddress", <<>>)
            /\ calls' = <<>>
            /\ UNCHANGED <<regs, slave_addr, last_set>>
       ELSE \E o \in WriteOutcomes(regs) :
            LET w == Write(regs, ModbusAddress, addr, o) IN
            /\ regs' = w.regs
            /\ calls' = <<w.call>>
            /\ result' = Res("set_addr", addr, 0, w.status, <<>>)
            /\ IF w.status = "Ok"
               THEN /\ set_slave_addr(addr)
                    /\ last_set' = addr
               ELSE UNCHANGED <<slave_addr, last_set>>

\* ------------------------------------------------------- low-level write
\* a low-level write that follows a write to 0x0002 with a cache update
LowWrite_SyncsCache(register, value) ==
    /\ Ready
    /\ \E o \in WriteOutcomes(regs) :
        LET w == Write(regs, register, value, o) IN
        /\ regs' = w.regs
        /\ calls' = <<w.call>>
        /\ result' = Res("write", register, value, w.status, <<>>)
        /\ IF register = ModbusAddress /\ w.status = "Ok"
           THEN slave_addr' = AsU8(value)
           ELSE UNCHANGED slave_addr
    /\ UNCHANGED <<backend, context_slave, timeout, port_opened, last_set,
                   inflight>>

\* Jpf4826Client::write called directly
LowWrite(register, value) ==
    /\ Ready
    /\ \E o \in WriteOutcomes(regs) :
        LET w == Write(regs, register, value, o) IN
        /\ regs' = w.regs
        /\ calls' = <<w.call>>
        /\ result' = Res("write", register, value, w.status, <<>>)
    /\ UNCHANGED <<backend, slave_addr, context_slave, timeout, port_opened,
                   last_set, inflight>>

\* ------------------------------------------------- single-write setters
\* The tail shared by the setters that validate and then issue one write:
\* `self.write(register, value).await`
WriteOp(op, a, register, value) ==
    /\ \E o \in WriteOutcomes(regs) :
        LET w == Write(regs, register, value, o) IN
        /\ regs' = w.regs
        /\ calls' = <<w.call>>
        /\ result' = Res(op, a, 0, w.status, <<>>)
    /\ UNCHANGED <<backend, slave_addr, context_slave, timeout, port_opened,
                   last_set, inflight>>

\* A validation failure returned before any exchange
Reject(op, a, b, status) ==
    /\ result' = Res(op, a, b, status, <<>>)
    /\ calls' = <<>>
    /\ UNCHANGED <<backend, regs, slave_addr, context_slave, timeout,
                   port_opened, last_set, inflight>>

\* reset writing 0x0055 instead of the sentinel
Reset_Sentinel55 == Ready /\ WriteOp("reset", 0, ResetController, 85)

\* Jpf4826Client::reset
Reset == Ready /\ WriteOp("reset", 0, ResetController, 170)

\* OperatingMode::to_register_value
OperatingModeToRegisterValue(mode) ==
    IF mode = "Temperature" THEN 65535 ELSE 0

\* set_mode writing the mode's value to the work mode register
SetMode_ToWorkMode(mode) ==
    /\ Ready
    /\ WriteOp("set_mode", OperatingModeToRegisterValue(mode),
               WorkMode, OperatingModeToRegisterValue(mode))

\* Jpf4826Client::set_mode
SetMode(mode) ==
    /\ Ready
    /\ WriteOp("set_mode", OperatingModeToRegisterValue(mode),
               ManualSpeedControl, OperatingModeToRegisterValue(mode))

\* WorkMode::to_register_value with the two values exchanged
WorkModeToRegisterValue_Swapped(mode) == IF mode = "Shutdown" THEN 1 ELSE 0

\* WorkMode::to_register_value
WorkModeToRegisterValue(mode) == IF mode = "Shutdown" THEN 0 ELSE 1

\* WorkMode::from_register_value; "None" stands for None
WorkModeFromRegisterValue(value) ==
    CASE value = 0 -> "Shutdown"
      [] value = 1 -> "MinimumSpeed"
      [] OTHER -> "None"

\* Jpf4826Client::set_eco
SetEco(mode) ==
    /\ Ready
    /\ WriteOp("set_eco", WorkModeToRegisterValue(mode), WorkMode,
               WorkModeToRegisterValue(mode))

\* commands/set.rs execute: the work mode chosen for `--eco <eco>`
EcoArgToWorkMode(eco) == IF eco = 0 THEN "MinimumSpeed" ELSE "Shutdown"

\* `jpf4826ctl set --eco <eco>`: execute with only the eco option given
CliSetEco(eco) ==
    /\ Ready
    /\ WriteOp("cli_set_eco", eco, WorkMode,
               WorkModeToRegisterValue(EcoArgToWorkMode(eco)))

\* PwmFrequency::to_register_value counting from 1
PwmFrequencyToRegisterValue_OneBased(freq) ==
    CASE freq = "Hz500" -> 1
      [] freq = "Hz1000" -> 2
      [] freq = "Hz2000" -> 3
      [] freq = "Hz5000" -> 4
      [] freq = "Hz10000" -> 5
      [] freq = "Hz25000" -> 6

\* PwmFrequency::to_hz
PwmFrequencyToHz(freq) ==
    CASE freq = "Hz500" -> 500
      [] freq = "Hz1000" -> 1000
      [] freq = "Hz2000" -> 2000
      [] freq = "Hz5000" -> 5000
      [] freq = "Hz10000" -> 10000
      [] freq = "Hz25000" -> 25000

\* PwmFrequency::from_hz; "None" stands for None
PwmFrequencyFromHz(hz) ==
    CASE hz = 500 -> "Hz500"
      [] hz = 1000 -> "Hz1000"
      [] hz = 2000 -> "Hz2000"
      [] hz = 5000 -> "Hz5000"
      [] hz = 10000 -> "Hz10000"
      [] hz = 25000 -> "Hz25000"
      [] OTHER -> "None"

\* PwmFrequency::to_register_value
PwmFrequencyToRegisterValue(freq) ==
    CASE freq = "Hz500" -> 0
      [] freq = "Hz1000" -> 1
      [] freq = "Hz2000" -> 2
      [] freq = "Hz5000" -> 3
      [] freq = "Hz10000" -> 4
      [] freq = "Hz25000" -> 5

\* Jpf4826Client::set_pwm_frequency
SetPwmFrequency(freq) ==
    /\ Ready
    /\ WriteOp("set_pwm_frequency", PwmFrequencyToRegisterValue(freq),
               PwmFrequency, PwmFrequencyToRegisterValue(freq))

\* set_fan_speed rejecting 100 as well
SetFanSpeed_Below100(speed_percent) ==
    /\ Ready
    /\ IF speed_percent >= 100
       THEN Reject("set_fan_speed", speed_percent, 0, "InvalidSpeed")
       ELSE WriteOp("set_fan_speed", speed_percent, ManualSpeedControl,
                    speed_percent)

\* set_fan_speed refusing to act on a controller in Temperature mode
SetFanSpeed_ChecksMode(speed_percent) ==
    /\ Ready
    /\ IF speed_percent > 100 \/ regs[ManualSpeedControl] = 65535
       THEN Reject("set_fan_speed", speed_percent, 0, "InvalidSpeed")
       ELSE WriteOp("set_fan_speed", speed_percent, ManualSpeedControl,
                    speed_percent)

\* Jpf4826Client::set_fan_speed
SetFanSpeed(speed_percent) ==
    /\ Ready
    /\ IF speed_percent > 100
       THEN Reject("set_fan_speed", speed_percent, 0, "InvalidSpeed")
       ELSE WriteOp("set_fan_speed", speed_percent, ManualSpeedControl,
                    speed_percent)

\* set_fan_count validating only after the write was issued
set_fan_count_WriteFirst(op, count) ==
    IF count > 4
    THEN /\ \E o \in WriteOutcomes(regs) :
            LET w == Write(regs, FanQuantity, count, o) IN
            /\ regs' = w.regs
            /\ calls' = <<w.call>>
            /\ result' = Res(op, count, 0, "InvalidParameter", <<>>)
         /\ UNCHANGED <<backend, slave_addr, context_slave, timeout,
                        port_opened, last_set, inflight>>
    ELSE WriteOp(op, count, FanQuantity, count)

\* set_fan_count accepting 5
set_fan_count_UpTo5(op, count) ==
    IF count > 5
    THEN Reject(op, count, 0, "InvalidParameter")
    ELSE WriteOp(op, count, FanQuantity, count)

\* Jpf4826Client::set_fan_count, run on behalf of operation `op`
set_fan_count(op, count) ==
    IF count > 4
    THEN Reject(op, count, 0, "InvalidParameter")
    ELSE WriteOp(op, count, FanQuantity, count)

SetFanCount(count) == Ready /\ set_fan_count("set_fan_count", count)

\* Jpf4826Client::disable_fault_detection
DisableFaultDetection == Ready /\ set_fan_count("disable_fault_detection", 0)

\* a set_timeout that leaves the timeout as it was
SetTimeout_Ignored(d) ==
    /\ backend = "RealModbus"
    /\ inflight.kind = "none"
    /\ calls' = <<>>
    /\ result' = Res("set_timeout", d, 0, "Ok", <<>>)
    /\ UNCHANGED <<backend, regs, slave_addr, context_slave, timeout,
                   port_opened, last_set, inflight>>

\* ModbusRtuClient::set_timeout
SetTimeout(d) ==
    /\ backend = "RealModbus"
    /\ inflight.kind = "none"
    /\ timeout' = d
    /\ calls' = <<>>
    /\ result' = Res("set_timeout", d, 0, "Ok", <<>>)
    /\ UNCHANGED <<backend, regs, slave_addr, context_slave, port_opened,
                   last_set, inflight>>

\* ---------------------------------------------------- threshold setters
\* a range check that lets -21 through
InRange_Wide(t) == t \in -21..120

\* `(-20..=120).contains(&t)`
InRange(t) == t \in -20..120

\* an ordering check that lets equal thresholds through
OrderViolated_NonStrict(t, current, lowSide) ==
    IF lowSide THEN t > current ELSE t < current

\* `low >= current_high` in set_start_temperature,
\* `high <= current_low` in set_full_speed_temperature
OrderViolated(t, current, lowSide) ==
    IF lowSide THEN t >= current ELSE t <= current

\* a setter that reads back the register it is about to write
OtherThreshold_Same(lowSide) ==
    IF lowSide THEN StartTemperature ELSE FullSpeedTemperature

\* the register read for the ordering check
OtherThreshold(lowSide) ==
    IF lowSide THEN FullSpeedTemperature ELSE StartTemperature

\* the checks of set_temperature_threshold with the range checks first
ValidateThresholds_RangeFirst(low, high) ==
    IF ~InRange(low)
    THEN [status |-> "InvalidParameter", val |-> <<"low">>]
    ELSE IF ~InRange(high)
    THEN [status |-> "InvalidParameter", val |-> <<"high">>]
    ELSE IF high <= low
    THEN [status |-> "InvalidThresholds", val |-> <<>>]
    ELSE [status |-> "Ok", val |-> <<>>]

\* the checks at the head of set_temperature_threshold, in the order of
\* the code; val names the temperature the invalid-parameter message
\* reports
ValidateThresholds(low, high) ==
    IF high <= low
    THEN [status |-> "InvalidThresholds", val |-> <<>>]
    ELSE IF ~InRange(low)
    THEN [status |-> "InvalidParameter", val |-> <<"low">>]
    ELSE IF ~InRange(high)
    THEN [status |-> "InvalidParameter", val |-> <<"high">>]
    ELSE [status |-> "Ok", val |-> <<>>]

\* set_temperature_threshold going on to the second write after the first
\* has failed
SetTemperatureThreshold_BothAlways(low, high) ==
    /\ Ready
    /\ LET v == ValidateThresholds(low, high) IN
       IF v.status # "Ok"
       THEN /\ result' = Res("set_temperature_threshold", low, high,
                             v.status, v.val)
            /\ calls' = <<>>
            /\ UNCHANGED <<backend, regs, slave_addr, context_slave, timeout,
                           port_opened, last_set, inflight>>
       ELSE \E o1 \in WriteOutcomes(regs) :
            LET w1 == Write(regs, StartTemperature,
                            celsius_to_register(low), o1) IN
            /\ UNCHANGED <<backend, slave_addr, context_slave, timeout,
                           port_opened, last_set, inflight>>
            /\ \E o2 \in WriteOutcomes(w1.regs) :
                    LET w2 == Write(w1.regs, FullSpeedTemperature,
                                    celsius_to_register(high), o2) IN
                    /\ regs' = w2.regs
                    /\ calls' = <<w1.call, w2.call>>
                    /\ result' = Res("set_temperature_threshold", low, high,
                                     IF w1.status # "Ok" THEN w1.status
                                     ELSE w2.status, <<>>)

\* Jpf4826Client::set_temperature_threshold
SetTemperatureThreshold(low, high) ==
    /\ Ready
    /\ LET v == ValidateThresholds(low, high) IN
       IF v.status # "Ok"
       THEN /\ result' = Res("set_temperature_threshold", low, high,
                             v.status, v.val)
            /\ calls' = <<>>
            /\ UNCHANGED <<backend, regs, slave_addr, context_slave, timeout,
                           port_opened, last_set, inflight>>
       ELSE \E o1 \in WriteOutcomes(regs) :
            LET w1 == Write(regs, StartTemperature,
                            celsius_to_register(low), o1) IN
            /\ UNCHANGED <<backend, slave_addr, context_slave, timeout,
                           port_opened, last_set, inflight>>
            /\ IF w1.status # "Ok"
               THEN /\ regs' = w1.regs
                    /\ calls' = <<w1.call>>
                    /\ result' = Res("set_temperature_threshold", low, high,
                                     w1.status, <<>>)
               ELSE \E o2 \in WriteOutcomes(w1.regs) :
                    LET w2 == Write(w1.regs, FullSpeedTemperature,
                                    celsius_to_register(high), o2) IN
                    /\ regs' = w2.regs
                    /\ calls' = <<w1.call, w2.call>>
                    /\ result' = Res("set_temperature_threshold", low, high,
                                     w2.status, <<>>)

\* The tail shared by set_start_temperature and set_full_speed_temperature:
\* read the other threshold, compare, write the new one.  `lowSide` tells
\* which of the two thresholds is being set.
SetOneThreshold(op, t, lowSide) ==
    LET other == OtherThreshold(lowSide)
        mine == IF lowSide THEN StartTemperature ELSE FullSpeedTemperature
    IN
    /\ UNCHANGED <<backend, slave_addr, context_slave, timeout, port_opened,
                   last_set, inflight>>
    /\ \E ro \in ReadOutcomes(regs) :
       LET rd == Read(regs, other, 1, ro) IN
       IF rd.status # "Ok"
       THEN /\ result' = Res(op, t, 0, rd.status, <<>>)
            /\ calls' = <<rd.call>>
            /\ UNCHANGED regs
       ELSE \E panics \in (IF RegisterToCelsiusOverflows(rd.values[1])
                           THEN BOOLEAN ELSE {FALSE}) :
            LET current == register_to_celsius(rd.values[1]) IN
            IF panics
            THEN /\ result' = Res(op, t, 0, "Panic", <<>>)
                 /\ calls' = <<rd.call>>
                 /\ UNCHANGED regs
            ELSE IF OrderViolated(t, current, lowSide)
            THEN /\ result' = Res(op, t, current, "InvalidThresholds", <<>>)
                 /\ calls' = <<rd.call>>
                 /\ UNCHANGED regs
            ELSE \E o \in WriteOutcomes(regs) :
                 LET w == Write(regs, mine, celsius_to_register(t), o) IN
                 /\ regs' = w.regs
                 /\ calls' = <<rd.call, w.call>>
                 /\ result' = Res(op, t, current, w.status, <<>>)

\* Jpf4826Client::set_start_temperature
SetStartTemperature(low) ==
    /\ Ready
    /\ IF ~InRange(low)
       THEN Reject("set_start_temperature", low, 0, "InvalidParameter")
       ELSE SetOneThreshold("set_start_temperature", low, TRUE)

\* Jpf4826Client::set_full_speed_temperature
SetFullSpeedTemperature(high) ==
    /\ Ready
    /\ IF ~InRange(high)
       THEN Reject("set_full_speed_temperature", high, 0, "InvalidParameter")
       ELSE SetOneThreshold("set_full_speed_temperature", high, FALSE)

\* ------------------------------------------------------ the controller
\* Bit i of a bitmap register set (`current | bit_mask`) or cleared
\* (`current & !bit_mask`)
WithBit(bitmap, i, on) ==
    IF on
    THEN (IF (bitmap \div (2 ^ i)) % 2 = 1 THEN bitmap ELSE bitmap + 2 ^ i)
    ELSE (IF (bitmap \div (2 ^ i)) % 2 = 1 THEN bitmap - 2 ^ i ELSE bitmap)

\* MockController::write_register
write_register(r, addr, value) == [r EXCEPT ![addr] = value]

\* MockController::set_fan_fault (a cleared bit of 0x000E is a fault)
set_fan_fault(r, fan_index, has_fault) ==
    IF ~(fan_index \in 1..4) THEN r
    ELSE write_register(r, FanFaultCode,
                        WithBit(r[FanFaultCode], fan_index - 1, ~has_fault))

\* MockController::set_fan_running
set_fan_running(r, fan_index, is_running) ==
    IF ~(fan_index \in 1..4) THEN r
    ELSE write_register(r, FanStatus,
                        WithBit(r[FanStatus], fan_index - 1, is_running))

\* What the controller does on its own: the temperature reading moves by
\* one degree, or fan 1 stalls (0 RPM, stopped, fault) or recovers.
SensorEvents(r) ==
    { write_register(r, CurrentTemperature,
                     IF r[CurrentTemperature] = 71 THEN 72 ELSE 71),
      IF r[Fan1Speed] # 0
      THEN set_fan_fault(set_fan_running(write_register(r, Fan1Speed, 0),
                                         1, FALSE), 1, TRUE)
      ELSE set_fan_fault(set_fan_running(write_register(r, Fan1Speed, 1400),
                                         1, TRUE), 1, FALSE) }

\* a controller that holds still while a call is in progress
Drift_Frozen(r, live) == {r}

\* The tables the controller may hold at the next exchange of a call that
\* found it holding r: r itself, or (live controller) one event later.
Drift(r, live) == IF live THEN {r} \cup SensorEvents(r) ELSE {r}

\* The tables held at n consecutive exchanges, the first finding r
RECURSIVE Histories(_, _, _)
Histories(r, n, live) ==
    IF n <= 1 THEN {<<r>>}
    ELSE {<<r>> \o h : h \in UNION {Histories(t, n - 1, live) :
                                        t \in Drift(r, live)}}

\* The test harness changing the controller between two client calls
Harness(op, a, b, table) ==
    /\ Ready
    /\ regs' = table
    /\ calls' = <<>>
    /\ result' = Res(op, a, b, "Ok", <<>>)
    /\ UNCHANGED <<backend, slave_addr, context_slave, timeout, port_opened,
                   last_set, inflight>>

WriteRegister(addr, value) ==
    Harness("write_register", addr, value, write_register(regs, addr, value))

SetFanFault(fan_index, has_fault) ==
    Harness("set_fan_fault", fan_index, IF has_fault THEN 1 ELSE 0,
            set_fan_fault(regs, fan_index, has_fault))

SetFanRunning(fan_index, is_running) ==
    Harness("set_fan_running", fan_index, IF is_running THEN 1 ELSE 0,
            set_fan_running(regs, fan_index, is_running))

\* the controller's own event between two client calls
SensorEvent ==
    \E t \in SensorEvents(regs) : Harness("sensor", 0, 0, t)

\* ------------------------------------------------------ read operations
\* A run of n consecutive reads: <<0, "Ok">> when all succeed, <<k, f>> when
\* the k-th read fails with outcome f (the `?` then returns at once).
ReadRuns(n) ==
    LET outs == ReadOutcomes(regs) IN
    (IF "Ok" \in outs THEN {<<0, "Ok">>} ELSE {})
    \cup {<<k, f>> : k \in {j \in 1..n : j = 1 \/ "Ok" \in outs},
                     f \in outs \ {"Ok"}}

\* a failed read sent once more before the error is returned
RunCalls_Resend(reqs, run) ==
    [i \in 1..(IF run[1] = 0 THEN Len(reqs) ELSE run[1] + 1) |->
        Call("read", reqs[IF run[1] # 0 /\ i > run[1] THEN run[1] ELSE i][1],
             reqs[IF run[1] # 0 /\ i > run[1] THEN run[1] ELSE i][2],
             IF run[1] # 0 /\ i >= run[1] THEN run[2] ELSE "Ok")]

RunCalls(reqs, run) ==
    [i \in 1..(IF run[1] = 0 THEN Len(reqs) ELSE run[1]) |->
        Call("read", reqs[i][1], reqs[i][2],
             IF i = run[1] THEN run[2] ELSE "Ok")]

RunStatus(run) == IF run[1] = 0 THEN "Ok" ELSE ErrorOf(run[2])

\* An operation that only reads: requests reqs, each answered from the
\* table the controller holds at that exchange; val[h] is the value
\* assembled when all succeed and the tables held were h; decoded lists
\* the registers of the first read that are passed through
\* register_to_celsius as soon as it returns (a debug build panics there
\* when the subtraction overflows).
ReadOp(op, a, b, reqs, val, decoded, live) ==
    /\ \E run \in ReadRuns(Len(reqs)) :
       \E h \in Histories(regs, IF run[1] = 0 THEN Len(reqs) ELSE run[1],
                          live) :
       \E panics \in (IF run[1] # 1 /\ \E r \in decoded :
                                          RegisterToCelsiusOverflows(r)
                      THEN BOOLEAN ELSE {FALSE}) :
        IF panics
        THEN /\ calls' = SubSeq(RunCalls(reqs, run), 1, 1)
             /\ result' = Res(op, a, b, "Panic", <<>>)
             /\ regs' = h[1]
        ELSE /\ calls' = RunCalls(reqs, run)
             /\ result' = Res(op, a, b, RunStatus(run),
                              IF run[1] = 0 THEN val[h] ELSE <<>>)
             /\ regs' = h[Len(h)]
    /\ UNCHANGED <<backend, slave_addr, context_slave, timeout,
                   port_opened, last_set, inflight>>

\* Jpf4826Client::read called directly.  On the mock a range that passes
\* 65535 panics in a build with overflow checks and wraps in one without;
\* what a controller answers to such a request is not modelled.
LowRead(register, count) ==
    /\ Ready
    /\ backend = "RealModbus" => ~RangeOverflows(register, count)
    /\ \/ ReadOp("read", register, count, <<<<register, count>>>>,
                 [h \in Histories(regs, 1, FALSE) |->
                     read_registers(h[1], register, count)], {}, FALSE)
       \/ /\ backend = "Mock" /\ RangeOverflows(register, count)
          /\ calls' = <<>>
          /\ result' = Res("read", register, count, "Panic", <<>>)
          /\ UNCHANGED <<backend, regs, slave_addr, context_slave, timeout,
                         port_opened, last_set, inflight>>

Celsius(value) == [value |-> value, unit |-> "Celsius"]

\* Jpf4826Client::temperature
Temperature ==
    /\ Ready
    /\ ReadOp("temperature", 0, 0, <<<<CurrentTemperature, 1>>>>,
              [h \in Histories(regs, 1, FALSE) |->
                  Celsius(register_to_celsius(
                      read_registers(h[1], CurrentTemperature, 1)[1]))],
              {regs[CurrentTemperature]}, FALSE)

\* fan_speed_register answering for fan_index - 1
fan_speed_register_Shifted(fan_index) ==
    CASE fan_index = 2 -> Fan1Speed
      [] fan_index = 3 -> Fan2Speed
      [] fan_index = 4 -> Fan3Speed
      [] fan_index = 5 -> Fan4Speed
      [] OTHER -> 0

\* RegisterAddress::fan_speed_register; 0 stands for None
fan_speed_register(fan_index) ==
    CASE fan_index = 1 -> Fan1Speed
      [] fan_index = 2 -> Fan2Speed
      [] fan_index = 3 -> Fan3Speed
      [] fan_index = 4 -> Fan4Speed
      [] OTHER -> 0

\* Jpf4826Client::fan_speed
FanSpeed(index) ==
    /\ Ready
    /\ IF fan_speed_register(index) = 0
       THEN Reject("fan_speed", index, 0, "InvalidFanIndex")
       ELSE ReadOp("fan_speed", index, 0,
                   <<<<fan_speed_register(index), 1>>>>,
                   [h \in Histories(regs, 1, FALSE) |->
                       read_registers(h[1], fan_speed_register(index), 1)[1]],
                   {}, FALSE)

\* Jpf4826Client::fan_count
FanCount ==
    /\ Ready
    /\ ReadOp("fan_count", 0, 0, <<<<FanQuantity, 1>>>>,
              [h \in Histories(regs, 1, FALSE) |->
                  AsU8(read_registers(h[1], FanQuantity, 1)[1])], {}, FALSE)

Bit(bitmap, i) == (bitmap \div (2 ^ i)) % 2

\* parse_fan_status_bitmap reading bits 1..4 instead of bits 0..3
parse_fan_status_bitmap_FromBit1(bitmap) ==
    [i \in 1..4 |-> Bit(bitmap, i) # 0]

\* conversions.rs parse_fan_status_bitmap
parse_fan_status_bitmap(bitmap) ==
    [i \in 1..4 |-> Bit(bitmap, i - 1) # 0]

\* parse_fan_fault_bitmap with the bits read the other way round
parse_fan_fault_bitmap_Inverted(bitmap) ==
    [i \in 1..4 |-> IF Bit(bitmap, i - 1) # 0 THEN "Fault" ELSE "Normal"]

\* conversions.rs parse_fan_fault_bitmap
parse_fan_fault_bitmap(bitmap) ==
    [i \in 1..4 |-> IF Bit(bitmap, i - 1) # 0 THEN "Normal" ELSE "Fault"]

FanStatusReqs == <<<<FanStatus, 1>>, <<Fan1Speed, 4>>, <<FanFaultCode, 1>>>>

\* the Vec<FanInfo> assembled by Jpf4826Client::fan_status from the speeds
\* and the fault bitmap it read
FanInfos(speeds, fault_bitmap) ==
    [i \in 1..4 |->
        [index |-> i,
         status |-> parse_fan_fault_bitmap(fault_bitmap)[i],
         rpm |-> speeds[i]]]

\* Jpf4826Client::fan_status against a controller that is live or not
FanStatusOn(live) ==
    /\ Ready
    /\ ReadOp("fan_status", 0, 0, FanStatusReqs,
              [h \in Histories(regs, 3, live) |->
                  FanInfos(read_registers(h[2], Fan1Speed, 4),
                           read_registers(h[3], FanFaultCode, 1)[1])],
              {}, live)

FanStatusOp == FanStatusOn(FALSE)

FanStatusLive == FanStatusOn(TRUE)

\* PwmFrequency::from_register_value; "None" stands for None
PwmFrequencyFromRegisterValue(value) ==
    CASE value = 0 -> "Hz500"
      [] value = 1 -> "Hz1000"
      [] value = 2 -> "Hz2000"
      [] value = 3 -> "Hz5000"
      [] value = 4 -> "Hz10000"
      [] value = 5 -> "Hz25000"
      [] OTHER -> "None"

\* a ControllerStatus with the two thresholds taken from each other's
\* register
ControllerStatus_ThresholdsSwapped(values, fans) ==
    [mode |-> IF values[4] = 65535 THEN "Temperature" ELSE "Manual",
     eco_mode |-> (values[6] = 1),
     modbus_address |-> AsU8(values[3]),
     pwm_frequency |->
        IF PwmFrequencyFromRegisterValue(values[12]) = "None"
        THEN "Hz25000" ELSE PwmFrequencyFromRegisterValue(values[12]),
     fan_count |-> AsU8(values[7]),
     temperature_current |-> Celsius(register_to_celsius(values[1])),
     temperature_low_threshold |-> Celsius(register_to_celsius(values[14])),
     temperature_high_threshold |-> Celsius(register_to_celsius(values[13])),
     fans |-> fans]

\* the ControllerStatus assembled by Jpf4826Client::status from the 15
\* registers of its bulk read and the result of fan_status
ControllerStatus(values, fans) ==
    [mode |-> IF values[4] = 65535 THEN "Temperature" ELSE "Manual",
     eco_mode |-> (values[6] = 1),
     modbus_address |-> AsU8(values[3]),
     pwm_frequency |->
        IF PwmFrequencyFromRegisterValue(values[12]) = "None"
        THEN "Hz25000" ELSE PwmFrequencyFromRegisterValue(values[12]),
     fan_count |-> AsU8(values[7]),
     temperature_current |-> Celsius(register_to_celsius(values[1])),
     temperature_low_threshold |-> Celsius(register_to_celsius(values[13])),
     temperature_high_threshold |-> Celsius(register_to_celsius(values[14])),
     fans |-> fans]

\* Jpf4826Client::status against a controller that is live or not
StatusOn(live) ==
    /\ Ready
    /\ ReadOp("status", 0, 0, <<<<CurrentTemperature, 15>>>> \o FanStatusReqs,
              [h \in Histories(regs, 4, live) |->
                  ControllerStatus(
                      read_registers(h[1], CurrentTemperature, 15),
                      FanInfos(read_registers(h[3], Fan1Speed, 4),
                               read_registers(h[4], FanFaultCode, 1)[1]))],
              {regs[CurrentTemperature], regs[StartTemperature],
               regs[FullSpeedTemperature]}, live)

Status == StatusOn(FALSE)

StatusLive == StatusOn(TRUE)

\* ------------------------------------------- one exchange, step by step
\* ModbusRtuClient::read_holding_registers / write_single_register as the
\* runtime executes them: the request goes out, then the response and the
\* timer of tokio::time::timeout race.  Time is counted in seconds; the
\* timer is set to the value `self.timeout` has when the exchange starts.
\* a request sent while the previous exchange is still awaited
Begin_Pipelined(kind, register, arg) ==
    /\ backend = "RealModbus"
    /\ inflight' = [kind |-> kind, addr |-> register, arg |-> arg,
                    elapsed |-> 0, deadline |-> timeout]
    /\ calls' = <<>>
    /\ result' = Res(kind, register, arg, "Pending", <<>>)
    /\ UNCHANGED <<backend, regs, slave_addr, context_slave, timeout,
                   port_opened, last_set>>

Begin(kind, register, arg) ==
    /\ backend = "RealModbus"
    /\ inflight.kind = "none"
    /\ inflight' = [kind |-> kind, addr |-> register, arg |-> arg,
                    elapsed |-> 0, deadline |-> timeout]
    /\ calls' = <<>>
    /\ result' = Res(kind, register, arg, "Pending", <<>>)
    /\ UNCHANGED <<backend, regs, slave_addr, context_slave, timeout,
                   port_opened, last_set>>

\* `self.context.read_holding_registers(addr, count)` is awaited
BeginRead(register, count) == Begin("read", register, count)

\* `self.context.write_single_register(addr, value)` is awaited
BeginWrite(register, value) == Begin("write", register, value)

\* a second passes while the exchange is awaited
Tick ==
    /\ inflight.kind # "none"
    /\ inflight.elapsed < inflight.deadline
    /\ inflight' = [inflight EXCEPT !.elapsed = @ + 1]
    /\ UNCHANGED <<backend, regs, slave_addr, context_slave, timeout,
                   port_opened, calls, result, last_set>>

\* the outcomes the awaited exchange can have
WireOutcomes ==
    IF inflight.kind = "read"
    THEN {[out |-> x, applied |-> FALSE] : x \in ReadOutcomes(regs)}
    ELSE WriteOutcomes(regs)

\* the awaited exchange ends with outcome o and the operation returns
Finish(o) ==
    /\ inflight' = NoFlight
    /\ IF inflight.kind = "read"
       THEN LET rd == Read(regs, inflight.addr, inflight.arg, o.out) IN
            /\ calls' = <<rd.call>>
            /\ result' = Res("read", inflight.addr, inflight.arg, rd.status,
                             rd.values)
            /\ UNCHANGED regs
       ELSE LET w == Write(regs, inflight.addr, inflight.arg, o) IN
            /\ calls' = <<w.call>>
            /\ result' = Res("write", inflight.addr, inflight.arg, w.status,
                             <<>>)
            /\ regs' = w.regs
    /\ UNCHANGED <<backend, slave_addr, context_slave, timeout, port_opened,
                   last_set>>

\* the inner future completes first: a response, a link error or an
\* exception (tokio::time::timeout polls it before its timer)
Respond ==
    /\ inflight.kind # "none"
    /\ \E o \in {x \in WireOutcomes : x.out # "Timeout"} : Finish(o)

\* an exchange awaited without tokio::time::timeout: no timer ever fires
Expire_NoTimer ==
    /\ inflight.kind # "none"
    /\ FALSE
    /\ UNCHANGED vars

\* the timer of tokio::time::timeout fires: Err(Elapsed)
Expire ==
    /\ inflight.kind # "none"
    /\ inflight.elapsed >= inflight.deadline
    /\ \E o \in {x \in WireOutcomes : x.out = "Timeout"} : Finish(o)

\* ------------------------------------------- the conversions, applied
\* The pure functions of conversions.rs and of the CLI's output.rs, called
\* on arguments held in `result`: "celsius" holds one temperature, "pair"
\* a low and a high temperature, "bitmap" a raw register value.
Apply(op, a, b, panics, val) ==
    /\ \E p \in (IF panics THEN BOOLEAN ELSE {FALSE}) :
          result' = IF p THEN Res(op, a, b, "Panic", <<>>)
                    ELSE Res(op, a, b, "Ok", val)
    /\ calls' = <<>>
    /\ UNCHANGED <<backend, regs, slave_addr, context_slave, timeout,
                   port_opened, last_set, inflight>>

CelsiusToRegister ==
    /\ result.op = "celsius"
    /\ Apply("celsius_to_register", result.a, 0,
             CelsiusToRegisterOverflows(result.a),
             celsius_to_register(result.a))

\* register_to_celsius on the value celsius_to_register returned
RegisterToCelsius ==
    /\ result.op = "celsius_to_register" /\ result.status = "Ok"
    /\ Apply("register_to_celsius", result.a, result.val,
             RegisterToCelsiusOverflows(result.val),
             register_to_celsius(result.val))

CelsiusToFahrenheit ==
    /\ result.op = "celsius"
    /\ Apply("celsius_to_fahrenheit", result.a, 0,
             CelsiusToFahrenheitOverflows(result.a),
             celsius_to_fahrenheit(result.a))

EncodeCombinedTemperature ==
    /\ result.op = "pair"
    /\ Apply("encode_combined_temperature", result.a, result.b,
             CelsiusToRegisterOverflows(result.a)
                 \/ CelsiusToRegisterOverflows(result.b),
             encode_combined_temperature(result.a, result.b))

\* parse_combined_temperature on the value encode_combined_temperature
\* returned (its bytes are below 32768: the subtraction cannot overflow)
ParseCombinedTemperature ==
    /\ result.op = "encode_combined_temperature" /\ result.status = "Ok"
    /\ Apply("parse_combined_temperature", result.a, result.b, FALSE,
             parse_combined_temperature(result.val))

ParseFanStatusBitmap ==
    /\ result.op = "bitmap"
    /\ Apply("parse_fan_status_bitmap", result.a, 0, FALSE,
             parse_fan_status_bitmap(result.a))

ParseFanFaultBitmap ==
    /\ result.op = "bitmap"
    /\ Apply("parse_fan_fault_bitmap", result.a, 0, FALSE,
             parse_fan_fault_bitmap(result.a))

\* output.rs celsius_to_fahrenheit_temp
celsius_to_fahrenheit_temp(temp) ==
    IF temp.unit = "Celsius"
    THEN [value |-> WrapI16(TruncDiv(WrapI16(temp.value * 9), 5) + 32),
          unit |-> "Fahrenheit"]
    ELSE temp

\* output.rs convert_to_fahrenheit
convert_to_fahrenheit(status) ==
    [status EXCEPT
        !.temperature_current = celsius_to_fahrenheit_temp(@),
        !.temperature_low_threshold = celsius_to_fahrenheit_temp(@),
        !.temperature_high_threshold = celsius_to_fahrenheit_temp(@)]

\* the status a controller at `low` degrees, with thresholds low and high,
\* reports
StatusAt(low, high) ==
    ControllerStatus(
        [read_registers(DefaultRegs, CurrentTemperature, 15) EXCEPT
            ![1] = celsius_to_register(low),
            ![13] = celsius_to_register(low),
            ![14] = celsius_to_register(high)],
        FanInfos(read_registers(DefaultRegs, Fan1Speed, 4),
                 DefaultRegs[FanFaultCode]))

\* `jpf4826ctl status --temp-unit 1` once status() has returned
ConvertToFahrenheit ==
    /\ result.op = "pair"
    /\ Apply("convert_to_fahrenheit", result.a, result.b,
             CelsiusToFahrenheitOverflows(result.a)
                 \/ CelsiusToFahrenheitOverflows(result.b),
             convert_to_fahrenheit(StatusAt(result.a, result.b)))

\* ----------------------------------------------- the enums, converted
\* The conversions of types.rs called on arguments held in `result`:
\* "freq" and "mode" hold an enum value, "value" a raw register value,
\* "hz" a frequency in hertz.
PwmRegisterRoundTrip ==
    /\ result.op = "freq"
    /\ Apply("pwm_register_round_trip",
             PwmFrequencyToRegisterValue(result.val.freq), 0, FALSE,
             [freq |-> result.val.freq,
              back |-> PwmFrequencyFromRegisterValue(
                           PwmFrequencyToRegisterValue(result.val.freq))])

PwmHzRoundTrip ==
    /\ result.op = "freq"
    /\ Apply("pwm_hz_round_trip", PwmFrequencyToHz(result.val.freq), 0, FALSE,
             [freq |-> result.val.freq,
              back |-> PwmFrequencyFromHz(
                           PwmFrequencyToHz(result.val.freq))])

PwmFromRegisterValue ==
    /\ result.op = "value"
    /\ Apply("pwm_from_register_value", result.a, 0, FALSE,
             [freq |-> PwmFrequencyFromRegisterValue(result.a)])

PwmFromHz ==
    /\ result.op = "hz"
    /\ Apply("pwm_from_hz", result.a, 0, FALSE,
             [freq |-> PwmFrequencyFromHz(result.a)])

WorkModeRoundTrip ==
    /\ result.op = "mode"
    /\ Apply("work_mode_round_trip",
             WorkModeToRegisterValue(result.val.mode), 0, FALSE,
             [mode |-> result.val.mode,
              back |-> WorkModeFromRegisterValue(
                           WorkModeToRegisterValue(result.val.mode))])

WorkModeFromRegister ==
    /\ result.op = "value"
    /\ Apply("work_mode_from_register_value", result.a, 0, FALSE,
             [mode |-> WorkModeFromRegisterValue(result.a)])

\* ------------------------------------------------------------ the inputs
AddrInputs == (0..MaxAddr) \cup {254, 255}
SpeedInputs == (0..MaxSpeed) \cup {100, 101, 255}
CountInputs == (0..MaxCount) \cup {255}
TempInputs == (0..MaxTemp) \cup {-21, -20, 30, 50, 120, 121}
OperatingModes == {"Temperature", "Manual"}
WorkModes == {"Shutdown", "MinimumSpeed"}
FanIndexInputs == (0..MaxFanIndex) \cup {255}
\* register contents the harness stores: a temperature register with its
\* top bit set, an address and a fan count wider than a byte, the other
\* work mode, a fan turning at its own speed
RegisterInputs ==
    {<<CurrentTemperature, 65535>>, <<CurrentTemperature, 71>>,
     <<ModbusAddress, 257>>, <<ModbusAddress, 1>>,
     <<WorkMode, 0>>, <<WorkMode, 1>>,
     <<FanQuantity, 260>>, <<Fan2Speed, 1500>>}

\* ------------------------------------------------------ every operation
\* All operations of the client, each on one accepted and (where it
\* validates) one rejected input.
Next ==
    \/ \E addr \in {0, 1} : New(addr, TRUE)
    \/ New(1, FALSE)
    \/ NewMock(1)
    \/ \E addr \in {0, 2} : SetAddr(addr)
    \/ LowWrite(ModbusAddress, 2)
    \/ LowRead(ModbusAddress, 2)
    \/ Temperature
    \/ \E index \in {0, 1} : FanSpeed(index)
    \/ FanCount
    \/ FanStatusOp
    \/ Status
    \/ Reset
    \/ SetMode("Manual")
    \/ SetEco("Shutdown")
    \/ SetPwmFrequency("Hz500")
    \/ \E p \in {100, 101} : SetFanSpeed(p)
    \/ \E n \in {4, 5} : SetFanCount(n)
    \/ DisableFaultDetection
    \/ \E d \in 1..MaxTimeout : SetTimeout(d)
    \/ \E t \in {<<0, 120>>, <<120, 0>>, <<-21, 0>>} :
          SetTemperatureThreshold(t[1], t[2])
    \/ \E low \in {-21, 0, 120} : SetStartTemperature(low)
    \/ \E high \in {121, 120, 0} : SetFullSpeedTemperature(high)

Spec == Init /\ [][Next]_vars

\* ------------------------------------------------- the bus address alone
NextAddr ==
    \/ \E addr \in AddrInputs, open_ok \in BOOLEAN : New(addr, open_ok)
    \/ NewMock(1)
    \/ \E addr \in AddrInputs : SetAddr(addr)
    \/ \E v \in 1..MaxAddr : LowWrite(ModbusAddress, v)
    \/ Temperature
    \/ SetEco("MinimumSpeed")
    \/ \E d \in 1..MaxTimeout : SetTimeout(d)

SpecAddr == Init /\ [][NextAddr]_vars

\* ------------------------------------------------ the thresholds alone
NextThr ==
    \/ New(1, TRUE)
    \/ NewMock(1)
    \/ \E low \in TempInputs, high \in TempInputs :
          SetTemperatureThreshold(low, high)
    \/ \E low \in TempInputs : SetStartTemperature(low)
    \/ \E high \in TempInputs : SetFullSpeedTemperature(high)
    \/ \E v \in {32768, 65535} : LowWrite(StartTemperature, v)
    \/ \E v \in {32768, 65535} : LowWrite(FullSpeedTemperature, v)

SpecThr == Init /\ [][NextThr]_vars

\* ------------------------------------------ manual speed and fan count
NextVal ==
    \/ New(1, TRUE)
    \/ NewMock(1)
    \/ \E mode \in OperatingModes : SetMode(mode)
    \/ \E p \in SpeedInputs : SetFanSpeed(p)
    \/ \E n \in CountInputs : SetFanCount(n)
    \/ DisableFaultDetection
    \/ FanCount

SpecVal == Init /\ [][NextVal]_vars

\* ------------------------------------------------- the read operations
\* The controller holds still during a call; the harness changes it
\* between calls.
NextRead ==
    \/ New(1, TRUE)
    \/ NewMock(1)
    \/ \E e \in RegisterInputs : WriteRegister(e[1], e[2])
    \/ \E f \in BOOLEAN : SetFanFault(3, f)
    \/ \E b \in BOOLEAN : SetFanRunning(1, b)
    \/ \E i \in FanIndexInputs : FanSpeed(i)
    \/ FanCount
    \/ Temperature
    \/ FanStatusOp
    \/ Status

SpecRead == Init /\ [][NextRead]_vars

\* ------------------------------------------------- the low-level read
\* start register and count of the low-level reads: short ranges, a range
\* running past the register map, and two ranges running past 65535
ReadInputs ==
    {<<CurrentTemperature, n>> : n \in 0..MaxRead}
        \cup {<<FanFaultCode, 2>>, <<ModbusAddress, 65534>>,
              <<ResetController, 65535>>}

NextLow ==
    \/ New(1, TRUE)
    \/ NewMock(1)
    \/ \E e \in RegisterInputs : WriteRegister(e[1], e[2])
    \/ \E q \in ReadInputs : LowRead(q[1], q[2])

SpecLow == Init /\ [][NextLow]_vars

\* ------------------------------------------------------ the conversions
\* the temperatures the controller works with (client.rs validation range)
ValidCelsius == (-20)..120

\* one temperature: the valid ones, their neighbours and the ends of i16
CelsiusArgs == ValidCelsius \cup {-32768, -41, -21, 121, 32728, 32767}

\* every 16-bit register value
BitmapArgs == 0..65535

\* Init with the arguments of one call drawn from `args`
InitWith(args) ==
    /\ backend = "None"
    /\ regs = DefaultRegs
    /\ slave_addr = 0
    /\ context_slave = 0
    /\ timeout = 0
    /\ port_opened = FALSE
    /\ calls = <<>>
    /\ result \in args
    /\ last_set = 0
    /\ inflight = NoFlight

NextCodec ==
    \/ CelsiusToRegister
    \/ RegisterToCelsius
    \/ CelsiusToFahrenheit
    \/ EncodeCombinedTemperature
    \/ ParseCombinedTemperature
    \/ ConvertToFahrenheit
    \/ ParseFanStatusBitmap
    \/ ParseFanFaultBitmap

\* temperatures around the ends of what one byte holds once 40 is added,
\* and around the ends of i16
WideCelsius ==
    {-32768, -297, -296, -41, -40, 30, 215, 216, 1000, 32727, 32728, 32767}

\* one call's arguments: a temperature, a pair of valid temperatures, a
\* pair of any temperatures, or a raw register value
InitCodec ==
    \/ InitWith({Res("celsius", c, 0, "Ok", <<>>) : c \in CelsiusArgs})
    \/ InitWith({Res("pair", lo, hi, "Ok", <<>>) :
                     lo \in ValidCelsius, hi \in ValidCelsius})
    \/ InitWith({Res("pair", lo, hi, "Ok", <<>>) :
                     lo \in WideCelsius, hi \in WideCelsius})
    \/ InitWith({Res("bitmap", b, 0, "Ok", <<>>) : b \in BitmapArgs})

SpecCodec == InitCodec /\ [][NextCodec]_vars

\* ------------------------------------------------------------ the enums
PwmFrequencies ==
    {"Hz500", "Hz1000", "Hz2000", "Hz5000", "Hz10000", "Hz25000"}

\* raw register values: the small ones, a byte's ends and the largest
RegisterValueArgs == (0..MaxRegisterValue) \cup {255, 256, 65535}

\* frequencies in hertz: the six supported, their neighbours, a register
\* index, a supported one plus 65536, one far above them all
HzArgs ==
    {PwmFrequencyToHz(f) + d : f \in PwmFrequencies, d \in {-1, 0, 1}}
        \cup {0, 5, 66036, 2147483647}

EnumArgs ==
    {Res("freq", 0, 0, "Ok", [freq |-> f]) : f \in PwmFrequencies}
        \cup {Res("mode", 0, 0, "Ok", [mode |-> m]) : m \in WorkModes}
        \cup {Res("value", v, 0, "Ok", <<>>) : v \in RegisterValueArgs}
        \cup {Res("hz", h, 0, "Ok", <<>>) : h \in HzArgs}

\* the conversions, and the setters that use them with a status() to read
\* the result back
NextEnum ==
    \/ PwmRegisterRoundTrip
    \/ PwmHzRoundTrip
    \/ PwmFromRegisterValue
    \/ PwmFromHz
    \/ WorkModeRoundTrip
    \/ WorkModeFromRegister
    \/ New(1, TRUE)
    \/ NewMock(1)
    \/ \E freq \in PwmFrequencies : SetPwmFrequency(freq)
    \/ \E mode \in WorkModes : SetEco(mode)
    \/ \E mode \in OperatingModes : SetMode(mode)
    \/ Status

SpecEnum == InitWith(EnumArgs) /\ [][NextEnum]_vars

\* ------------------------------------------- modes, speed and reset
\* register contents status() has no enum value for, and a temperature
\* below what an i16 holds once the offset is taken off, stored by the
\* harness
UndecodableInputs ==
    {<<PwmFrequency, 6>>, <<PwmFrequency, 65535>>,
     <<ManualSpeedControl, 101>>, <<ManualSpeedControl, 65534>>,
     <<WorkMode, 2>>, <<WorkMode, 65535>>,
     <<CurrentTemperature, 32768>>}

NextSet ==
    \/ New(1, TRUE)
    \/ NewMock(1)
    \/ \E eco \in {0, 1} : CliSetEco(eco)
    \/ Reset
    \/ \E mode \in OperatingModes : SetMode(mode)
    \/ \E p \in {0, 50, 100, 101} : SetFanSpeed(p)
    \/ \E e \in UndecodableInputs : WriteRegister(e[1], e[2])
    \/ Status

SpecSet == Init /\ [][NextSet]_vars

\* ------------------------------------------- exchanges against the clock
\* Low-level reads and writes of the RealModbus backend, a second at a
\* time; New(2, TRUE) attaches to an address the controller does not answer.
NextWire ==
    \/ \E a \in {1, 2} : New(a, TRUE)
    \/ \E d \in 1..MaxTimeout : SetTimeout(d)
    \/ BeginRead(CurrentTemperature, 1)
    \/ BeginRead(Fan1Speed, 4)
    \/ \E p \in {0, 50} : BeginWrite(ManualSpeedControl, p)
    \/ Tick
    \/ Respond
    \/ Expire

\* The clock of the runtime advances and a timer that is due fires.
SpecWire ==
    Init /\ [][NextWire]_vars /\ WF_vars(Tick) /\ WF_vars(Expire)

\* -------------------------------------------------- a live controller
\* The controller's sensors move between calls and between the exchanges
\* of one call.
NextLive ==
    \/ New(1, TRUE)
    \/ NewMock(1)
    \/ SensorEvent
    \/ FanStatusLive
    \/ StatusLive

SpecLive == Init /\ [][NextLive]_vars

\* ======================================================== the properties
IsWrite(c, register, value) ==
    c.kind = "write" /\ c.addr = register /\ c.arg = value

IsRead(c, register, count) ==
    c.kind = "read" /\ c.addr = register /\ c.arg = count

ValidationErrors ==
    {"InvalidAddress", "InvalidFanIndex", "InvalidSpeed", "InvalidParameter",
     "InvalidThresholds"}

\* C1: once a set_addr(a) has succeeded, every exchange of every later
\* operation is addressed to a, the address of the latest successful
\* set_addr, and the cached address equals a.
C1_ExchangesFollowSetAddr ==
    [][ /\ last_set' # 0 => slave_addr' = last_set'
        /\ (backend = "RealModbus" /\ last_set # 0)
              => \A i \in DOMAIN calls' : calls'[i].slave = last_set ]_vars

\* C2: set_addr(a) issues the write of a to 0x0002 and updates the cached
\* address only when that write succeeded; when the write fails the error
\* is returned and the cached address keeps its previous value.
C2_WriteThenCache ==
    [][ (result'.op = "set_addr" /\ result'.status # "InvalidAddress") =>
          /\ Len(calls') = 1
          /\ IsWrite(calls'[1], 2, result'.a)
          /\ IF calls'[1].out = "Ok"
             THEN result'.status = "Ok" /\ slave_addr' = result'.a
             ELSE /\ result'.status =
                       (IF calls'[1].out = "Timeout" THEN "Timeout"
                        ELSE "Modbus")
                  /\ slave_addr' = slave_addr ]_vars

\* C2 witness: a set_addr whose write failed although the controller stored
\* the new address, the cached address still being the old one
C2_Witness ==
    /\ result.op = "set_addr"
    /\ result.status = "Timeout"
    /\ regs[2] = result.a
    /\ slave_addr # result.a

\* C3: once the client exists, the cached address changes only in a
\* successful set_addr, to the address that was set; every other operation
\* and every failed operation leaves it alone.
C3_CacheChangesOnlyInSetAddr ==
    [][ (backend # "None" /\ slave_addr' # slave_addr) =>
          /\ result'.op = "set_addr"
          /\ result'.status = "Ok"
          /\ slave_addr' = result'.a ]_vars

\* C3 witness: status() has just reported a bus address read from 0x0002
\* that differs from the cached address
C3_Witness ==
    /\ result.op = "status"
    /\ result.status = "Ok"
    /\ result.val.modbus_address # slave_addr

\* C8: set_addr and new accept exactly the addresses 1..254; a rejected
\* set_addr issues no write, a rejected new does not open the port, and an
\* accepted set_addr writes the address to 0x0002 and succeeds when the
\* exchange does.
C8_AddressRange ==
    [][ /\ result'.op = "set_addr" =>
             IF result'.a >= 1 /\ result'.a <= 254
             THEN /\ result'.status # "InvalidAddress"
                  /\ Len(calls') = 1
                  /\ IsWrite(calls'[1], 2, result'.a)
                  /\ calls'[1].out = "Ok" =>
                        result'.status = "Ok" /\ regs'[2] = result'.a
             ELSE /\ result'.status = "InvalidAddress"
                  /\ calls' = <<>>
                  /\ regs' = regs
        /\ result'.op = "new" =>
             IF result'.a >= 1 /\ result'.a <= 254
             THEN result'.status # "InvalidAddress" /\ port_opened'
             ELSE /\ result'.status = "InvalidAddress"
                  /\ port_opened' = port_opened
                  /\ backend' = "None" ]_vars

\* C8 witness: set_addr(254) has succeeded
C8_Witness ==
    /\ result.op = "set_addr"
    /\ result.a = 254
    /\ result.status = "Ok"
    /\ regs[2] = 254

ThresholdOps ==
    {"set_temperature_threshold", "set_start_temperature",
     "set_full_speed_temperature"}

\* C4 as stated: after a successful threshold-setting operation register
\* 0x000C holds a value strictly less than register 0x000D.
C4_RawThresholdsOrdered ==
    (result.op \in ThresholdOps /\ result.status = "Ok")
        => regs[12] < regs[13]

\* C4 amended: after a successful threshold-setting operation the threshold
\* decoded from 0x000C is strictly less than the one decoded from 0x000D,
\* and 0x000C < 0x000D as raw values whenever 0x000C is below 0x8000.
C4_ThresholdsOrdered ==
    (result.op \in ThresholdOps /\ result.status = "Ok") =>
        /\ register_to_celsius(regs[12]) < register_to_celsius(regs[13])
        /\ regs[12] < 32768 => regs[12] < regs[13]

\* C4 witness: a single-threshold setter has succeeded against a stored
\* threshold equal to one of the inputs' neighbours
C4_Witness ==
    /\ result.op = "set_full_speed_temperature"
    /\ result.status = "Ok"
    /\ regs[12] = 70
    /\ regs[13] = 90

\* C5 as stated: an operation that fails with a validation error has issued
\* no exchange at all and leaves every register unchanged.
C5_NoExchangeOnValidationError ==
    [][ result'.status \in ValidationErrors =>
          calls' = <<>> /\ regs' = regs ]_vars

\* C5 amended: an operation that fails with a validation error has issued
\* no write and leaves every register unchanged; the only exchange it can
\* have issued is the one successful read of the other threshold that
\* precedes the ordering check of set_start_temperature and
\* set_full_speed_temperature.
C5_NoWriteOnValidationError ==
    [][ result'.status \in ValidationErrors =>
          /\ regs' = regs
          /\ \A i \in DOMAIN calls' : calls'[i].kind = "read"
          /\ calls' # <<>> =>
                /\ result'.status = "InvalidThresholds"
                /\ Len(calls') = 1
                /\ calls'[1].out = "Ok"
                /\ \/ /\ result'.op = "set_start_temperature"
                      /\ IsRead(calls'[1], 13, 1)
                   \/ /\ result'.op = "set_full_speed_temperature"
                      /\ IsRead(calls'[1], 12, 1) ]_vars

\* C5 witness: set_start_temperature has failed its ordering check after
\* the read of the stored high threshold
C5_Witness ==
    /\ result.op = "set_start_temperature"
    /\ result.status = "InvalidThresholds"
    /\ Len(calls) = 1

\* C6: set_temperature_threshold(low, high) fails without any exchange when
\* high <= low or a value is outside -20..120; otherwise, when its
\* exchanges succeed, it succeeds and leaves 0x000C = low + 40 and
\* 0x000D = high + 40.
C6_ThresholdPair ==
    [][ result'.op = "set_temperature_threshold" =>
          IF \/ result'.b <= result'.a
             \/ result'.a < -20 \/ result'.a > 120
             \/ result'.b < -20 \/ result'.b > 120
          THEN /\ result'.status \in ValidationErrors
               /\ calls' = <<>>
               /\ regs' = regs
          ELSE /\ result'.status \notin ValidationErrors
               /\ calls' # <<>>
               /\ (\A i \in DOMAIN calls' : calls'[i].out = "Ok") =>
                     /\ result'.status = "Ok"
                     /\ regs'[12] = result'.a + 40
                     /\ regs'[13] = result'.b + 40 ]_vars

\* C6 witness: set_temperature_threshold(-20, 120) has succeeded
C6_Witness ==
    /\ result.op = "set_temperature_threshold"
    /\ result.status = "Ok"
    /\ result.a = -20 /\ result.b = 120
    /\ regs[12] = 20 /\ regs[13] = 160

\* what C7 requires of a single-threshold setter for new value t, the other
\* threshold being stored in register `other`, the written one in `mine`
OneThresholdChecked(t, other, mine, ordered) ==
    LET wrote == \E i \in DOMAIN calls' : calls'[i].kind = "write"
        allowed == t >= -20 /\ t <= 120 /\ ordered
    IN
    /\ wrote => /\ allowed
                /\ Len(calls') = 2
                /\ IsRead(calls'[1], other, 1) /\ calls'[1].out = "Ok"
                /\ IsWrite(calls'[2], mine, t + 40)
    /\ ~allowed => /\ result'.status # "Ok"
                   /\ ~wrote
                   /\ regs' = regs
    /\ result'.status = "Ok" => wrote /\ regs'[mine] = t + 40

\* C7: set_start_temperature(low) and set_full_speed_temperature(high)
\* read the other threshold from the device first and issue their write
\* only if the new value is in -20..120 and new low < stored high
\* (new high > stored low); otherwise they fail without a write.
C7_SingleThresholdChecked ==
    [][ /\ result'.op = "set_start_temperature" =>
              OneThresholdChecked(result'.a, 13, 12,
                  result'.a < register_to_celsius(regs[13]))
        /\ result'.op = "set_full_speed_temperature" =>
              OneThresholdChecked(result'.a, 12, 13,
                  result'.a > register_to_celsius(regs[12])) ]_vars

\* C7 witness: set_full_speed_temperature has read the stored low
\* threshold and then written the new high threshold
C7_Witness ==
    /\ result.op = "set_full_speed_temperature"
    /\ result.status = "Ok"
    /\ Len(calls) = 2
    /\ calls[1].kind = "read"
    /\ calls[2].kind = "write"

\* C9: set_fan_speed(p) fails with the invalid-speed error and no exchange
\* for p > 100; for p in 0..100 it writes p to 0x0003 and, when the
\* exchange succeeds, succeeds and leaves 0x0003 = p.
C9_FanSpeedRange ==
    [][ result'.op = "set_fan_speed" =>
          IF result'.a > 100
          THEN /\ result'.status = "InvalidSpeed"
               /\ calls' = <<>>
               /\ regs' = regs
          ELSE /\ result'.status # "InvalidSpeed"
               /\ Len(calls') = 1
               /\ IsWrite(calls'[1], 3, result'.a)
               /\ calls'[1].out = "Ok" =>
                     result'.status = "Ok" /\ regs'[3] = result'.a ]_vars

\* C9 witness: set_fan_speed(100) has succeeded
C9_Witness ==
    /\ result.op = "set_fan_speed"
    /\ result.a = 100
    /\ result.status = "Ok"
    /\ regs[3] = 100

\* C10: set_fan_count(n) fails without an exchange for n > 4; for n in 0..4
\* it writes n to 0x0006 and, when the exchange succeeds, succeeds and
\* leaves 0x0006 = n; disable_fault_detection() does what set_fan_count(0)
\* does: one write of 0 to 0x0006, with that write's result.
C10_FanCountRange ==
    [][ /\ result'.op = "set_fan_count" =>
              IF result'.a > 4
              THEN /\ result'.status \in ValidationErrors
                   /\ calls' = <<>>
                   /\ regs' = regs
              ELSE /\ result'.status \notin ValidationErrors
                   /\ Len(calls') = 1
                   /\ IsWrite(calls'[1], 6, result'.a)
                   /\ calls'[1].out = "Ok" =>
                         result'.status = "Ok" /\ regs'[6] = result'.a
        /\ result'.op = "disable_fault_detection" =>
              /\ result'.status \notin ValidationErrors
              /\ Len(calls') = 1
              /\ IsWrite(calls'[1], 6, 0)
              /\ (result'.status = "Ok") = (calls'[1].out = "Ok")
              /\ calls'[1].out = "Ok" => regs'[6] = 0
              /\ \A a \in DOMAIN regs : a # 6 => regs'[a] = regs[a] ]_vars

\* C10 witness: disable_fault_detection() has succeeded on a controller
\* configured for four fans
C10_Witness ==
    /\ result.op = "disable_fault_detection"
    /\ result.status = "Ok"
    /\ regs[6] = 0

\* ---------------------------------------------------------------- reads
\* C11: fan_speed(i) reads exactly one register, 0x0006 + i, for i in 1..4
\* and returns its raw value; for every other i it fails with the
\* invalid-fan-index error and issues no read.
C11_FanSpeedIndex ==
    [][ result'.op = "fan_speed" =>
          IF result'.a \in 1..4
          THEN /\ result'.status # "InvalidFanIndex"
               /\ Len(calls') = 1
               /\ IsRead(calls'[1], 6 + result'.a, 1)
               /\ result'.status = "Ok" => result'.val = regs[6 + result'.a]
          ELSE /\ result'.status = "InvalidFanIndex"
               /\ calls' = <<>>
               /\ regs' = regs ]_vars

\* fan_speed(2) has returned the speed of fan 2, which differs from the
\* speed of every other fan
C11_Witness ==
    /\ result.op = "fan_speed" /\ result.a = 2 /\ result.status = "Ok"
    /\ result.val = 1500
    /\ regs[8] = 1500 /\ regs[7] # 1500 /\ regs[9] # 1500 /\ regs[10] # 1500

\* C12 as stated: a successful status() returns the temperatures as the
\* register values minus 40, the bus address and the fan count as the
\* register values, and the four speeds; the defaults give 31 degrees and
\* four Normal fans at 1400 RPM.
C12_StatusRawValues ==
    [][ (result'.op = "status" /\ result'.status = "Ok" /\ regs' = regs) =>
          /\ result'.val.temperature_current = [value |-> regs[0] - 40,
                                                unit |-> "Celsius"]
          /\ result'.val.temperature_low_threshold = [value |-> regs[12] - 40,
                                                      unit |-> "Celsius"]
          /\ result'.val.temperature_high_threshold = [value |-> regs[13] - 40,
                                                       unit |-> "Celsius"]
          /\ result'.val.modbus_address = regs[2]
          /\ result'.val.fan_count = regs[6]
          /\ Len(result'.val.fans) = 4
          /\ \A i \in 1..4 : result'.val.fans[i].rpm = regs[6 + i] ]_vars

\* a temperature register as status() decodes it: read as a signed 16-bit
\* number, 40 subtracted in 16-bit arithmetic
SignedMinus40(u) ==
    LET s == IF u >= 32768 THEN u - 65536 ELSE u IN
    IF s - 40 < -32768 THEN s - 40 + 65536 ELSE s - 40

\* C12 (amended): a successful status() on a controller that holds still
\* returns the temperatures as the registers read as signed 16-bit numbers
\* minus 40, the bus address and the fan count as the low byte of their
\* registers, and the four speeds; where the registers are below 0x8000
\* (temperatures) and 0x100 (address, count) these are the register values
\* themselves, and the defaults give 31 degrees and four Normal fans at
\* 1400 RPM.
C12_StatusValues ==
    [][ (result'.op = "status" /\ result'.status = "Ok" /\ regs' = regs) =>
          /\ result'.val.temperature_current =
                [value |-> SignedMinus40(regs[0]), unit |-> "Celsius"]
          /\ result'.val.temperature_low_threshold =
                [value |-> SignedMinus40(regs[12]), unit |-> "Celsius"]
          /\ result'.val.temperature_high_threshold =
                [value |-> SignedMinus40(regs[13]), unit |-> "Celsius"]
          /\ result'.val.modbus_address = regs[2] % 256
          /\ result'.val.fan_count = regs[6] % 256
          /\ Len(result'.val.fans) = 4
          /\ \A i \in 1..4 : result'.val.fans[i].rpm = regs[6 + i]
          /\ regs[0] < 32768 => result'.val.temperature_current.value
                                    = regs[0] - 40
          /\ regs[2] < 256 => result'.val.modbus_address = regs[2]
          /\ regs[6] < 256 => result'.val.fan_count = regs[6]
          /\ (/\ regs[0] = 71 /\ regs[14] = 15
              /\ \A i \in 1..4 : regs[6 + i] = 1400) =>
                /\ result'.val.temperature_current.value = 31
                /\ \A i \in 1..4 :
                      /\ result'.val.fans[i].status = "Normal"
                      /\ result'.val.fans[i].rpm = 1400 ]_vars

\* status() has succeeded on a controller whose address and fan count
\* registers are wider than a byte and whose temperature register has its
\* top bit set
C12_Witness ==
    /\ result.op = "status" /\ result.status = "Ok"
    /\ regs[0] = 65535 /\ regs[2] = 257 /\ regs[6] = 260
    /\ result.val.temperature_current.value = -41
    /\ result.val.modbus_address = 1
    /\ result.val.fan_count = 4

\* C13: status().eco_mode is true when register 0x0005 holds 0 (Shutdown)
\* and false when it holds 1 (MinimumSpeed).
C13_EcoModeOfWorkMode ==
    [][ (result'.op = "status" /\ result'.status = "Ok") =>
          /\ regs[5] = 0 => result'.val.eco_mode
          /\ regs[5] = 1 => ~result'.val.eco_mode ]_vars

\* C15: a successful fan_status() returns exactly four entries, indexed
\* 1, 2, 3, 4 in order, whatever the fan count; entry i carries the speed
\* of register 0x0006 + i and is Normal exactly when bit i-1 of the fault
\* bitmap 0x000E is 1, Fault when it is 0, whatever the running bitmap.
C15_FanStatusEntries ==
    [][ (result'.op = "fan_status" /\ result'.status = "Ok") =>
          /\ regs' = regs
          /\ Len(result'.val) = 4
          /\ \A i \in 1..4 :
                /\ result'.val[i].index = i
                /\ result'.val[i].rpm = regs[6 + i]
                /\ result'.val[i].status =
                     IF (regs[14] \div (2 ^ (i - 1))) % 2 = 1
                     THEN "Normal" ELSE "Fault" ]_vars

\* fan_status() has succeeded with a fan count that is not 4, fan 1 stopped
\* but Normal and fan 3 running but in Fault
C15_Witness ==
    /\ result.op = "fan_status" /\ result.status = "Ok"
    /\ regs[6] # 4 /\ regs[1] = 14 /\ regs[14] = 11
    /\ result.val[1].status = "Normal" /\ result.val[3].status = "Fault"
    /\ Len(result.val) = 4

\* ------------------------------------------------------ a live controller
\* the tables a controller that starts from the defaults can hold
LiveTables ==
    LET s1 == {DefaultRegs} \cup SensorEvents(DefaultRegs)
    IN  s1 \cup UNION {SensorEvents(t) : t \in s1}

\* the fan entries match no table the controller can hold
TornFans(fans) ==
    \A t \in LiveTables :
        \E i \in 1..4 :
            \/ fans[i].rpm # t[6 + i]
            \/ (fans[i].status = "Normal")
                  # ((t[14] \div (2 ^ (i - 1))) % 2 = 1)

\* C14: status() and fan_status() are not atomic across their sub-reads:
\* whenever the controller answers, either call can succeed with a
\* structure that matches no table the controller ever holds (the speed of
\* a fan from before it stalled, its fault flag from after), and nothing
\* in the result tells.
C14_SubReadsNotAtomic ==
    (/\ inflight.kind = "none"
     /\ \/ backend = "Mock"
        \/ backend = "RealModbus" /\ context_slave = regs[2]) =>
        /\ regs \in LiveTables
        /\ ENABLED (/\ FanStatusLive
                    /\ result'.status = "Ok"
                    /\ TornFans(result'.val))
        /\ ENABLED (/\ StatusLive
                    /\ result'.status = "Ok"
                    /\ TornFans(result'.val.fans))

\* fan_status() has succeeded reporting fan 1 at 1400 RPM and in Fault,
\* which the controller never shows together
C14_Witness ==
    /\ result.op = "fan_status" /\ result.status = "Ok"
    /\ result.val[1].rpm = 1400 /\ result.val[1].status = "Fault"
    /\ TornFans(result.val)
    /\ regs \in LiveTables

\* ------------------------------------------------------------ exchanges
\* C16: an awaited read or write never waits longer than the configured
\* timeout and always comes to an end; when it ends without a response it
\* returns the Timeout failure, exactly at the timeout, and no other
\* outcome is reported as Timeout.
C16_TimeoutReturns ==
    /\ [](inflight.kind # "none" => inflight.elapsed <= timeout)
    /\ (inflight.kind # "none") ~> (inflight.kind = "none")
    /\ [][ (inflight.kind # "none" /\ inflight'.kind = "none") =>
             /\ Len(calls') = 1
             /\ calls'[1].out = "Timeout" =>
                   /\ result'.status = "Timeout"
                   /\ result'.val = <<>>
                   /\ inflight.elapsed = timeout
             /\ result'.status = "Timeout" => calls'[1].out = "Timeout"
             /\ result'.status \notin {"Pending", "Serial"} ]_vars

\* a read that got no response has returned Timeout after the default ten
\* seconds
C16_Witness ==
    /\ result.op = "read" /\ result.status = "Timeout"
    /\ inflight.kind = "none"
    /\ timeout = 10
    /\ Len(calls) = 1 /\ calls[1].out = "Timeout"

\* C17: an exchange that ends within the timeout with a device exception
\* or with a link-level error returns the Modbus failure; no register
\* values are returned and a write is not reported successful.
C17_ModbusFailure ==
    [][ (/\ inflight.kind # "none" /\ inflight'.kind = "none"
         /\ calls'[1].out \in {"Exception", "Link"}) =>
             /\ inflight.elapsed <= timeout
             /\ result'.op = inflight.kind
             /\ result'.status = "Modbus"
             /\ result'.val = <<>> ]_vars

\* a write has failed with a device exception and left the register alone
C17_Witness ==
    /\ result.op = "write" /\ result.status = "Modbus"
    /\ Len(calls) = 1 /\ calls[1].out = "Exception"
    /\ regs[3] # 50

\* two frames of one operation are the same request
SameFrame(c, d) == c.kind = d.kind /\ c.addr = d.addr /\ c.arg = d.arg

\* C18: no retries: a low-level read or write puts exactly one request
\* frame on the bus whatever its outcome; within any operation a failed
\* exchange is the last one, and no request frame goes out twice.
C18_NoRetries ==
    [][ /\ result'.op \in {"read", "write"} => Len(calls') = 1
        /\ \A i \in 1..Len(calls') :
              /\ calls'[i].out # "Ok" => i = Len(calls')
              /\ \A j \in 1..Len(calls') :
                    SameFrame(calls'[i], calls'[j]) => i = j ]_vars

\* status() has stopped at its second read, which timed out, after two
\* frames
C18_Witness ==
    /\ result.op = "status" /\ result.status = "Timeout"
    /\ Len(calls) = 2
    /\ calls[1].out = "Ok" /\ calls[2].out = "Timeout"

\* C21: at most one frame exchange is in flight: a request goes out only
\* when the previous operation has returned (completed, failed or timed
\* out), and while an exchange is awaited nothing happens but time passing:
\* no further request, no result, no register change.
C21_OneExchangeInFlight ==
    [][ /\ (inflight.kind = "none" /\ inflight'.kind # "none") =>
              /\ result.status # "Pending"
              /\ result'.status = "Pending"
              /\ inflight'.elapsed = 0
              /\ calls' = <<>>
              /\ regs' = regs
        /\ (inflight.kind # "none" /\ inflight'.kind # "none") =>
              /\ inflight' = [inflight EXCEPT !.elapsed = inflight.elapsed + 1]
              /\ calls' = calls /\ result' = result /\ regs' = regs
        /\ (inflight.kind # "none") => result.status = "Pending" ]_vars

\* a read is being awaited after an earlier write of 50 to register 0x0003
\* has reached the controller
C21_Witness ==
    /\ inflight.kind = "read" /\ inflight.elapsed > 0
    /\ result.status = "Pending"
    /\ regs[3] = 50

C23_ReadReturnsCount ==
    (result.op = "read" /\ result.status = "Ok") =>
        /\ Len(result.val) = result.b
        /\ \A k \in 1..Len(result.val) :
              result.val[k] = IF (result.a + k - 1) \in DOMAIN regs
                              THEN regs[result.a + k - 1] ELSE 0

\* ---------------------------------------------------------- conversions
\* C24: for every Celsius c in -20..=120, celsius_to_register(c) = c + 40
\* lies in 20..=160, and register_to_celsius of it gives c back.
C24_CelsiusRegisterRoundTrip ==
    /\ (result.op = "celsius_to_register" /\ result.a \in (-20)..120) =>
          /\ result.status = "Ok"
          /\ result.val = result.a + 40
          /\ result.val \in 20..160
    /\ (result.op = "register_to_celsius" /\ result.a \in (-20)..120) =>
          /\ result.status = "Ok"
          /\ result.b = result.a + 40
          /\ result.val = result.a

\* -20 degrees has gone to the register value 20 and come back
C24_Witness ==
    /\ result.op = "register_to_celsius"
    /\ result.a = -20 /\ result.b = 20 /\ result.val = -20

\* C25: for every lo, hi in -20..=120, encode_combined_temperature(lo, hi)
\* has lo + 40 in its high byte and hi + 40 in its low byte (30, 50 gives
\* 0x465A), and parse_combined_temperature of it gives (lo, hi) back.
C25_CombinedTemperatureRoundTrip ==
    /\ (result.op = "encode_combined_temperature"
            /\ result.a \in (-20)..120 /\ result.b \in (-20)..120) =>
          /\ result.status = "Ok"
          /\ result.val \in 0..65535
          /\ result.val \div 256 = result.a + 40
          /\ result.val % 256 = result.b + 40
          /\ (result.a = 30 /\ result.b = 50) => result.val = 18010
    /\ (result.op = "parse_combined_temperature"
            /\ result.a \in (-20)..120 /\ result.b \in (-20)..120) =>
          /\ result.status = "Ok"
          /\ result.val = <<result.a, result.b>>

\* the pair (-20, 120) has been encoded and parsed back
C25_Witness ==
    /\ result.op = "parse_combined_temperature"
    /\ result.a = -20 /\ result.b = 120
    /\ result.val = <<-20, 120>>

\* c * 9 / 5 + 32 with the quotient rounded toward zero
Fahrenheit(c) ==
    (IF c * 9 >= 0 THEN (c * 9) \div 5 ELSE -((-(c * 9)) \div 5)) + 32

\* C26: celsius_to_fahrenheit(c) = c * 9 / 5 + 32 with the division
\* truncating toward zero, for every c in -20..=120 (31 gives 87, 26 gives
\* 78, -20 gives -4), and the CLI's conversion of a status computes the
\* same value for each of its three temperatures.
C26_Fahrenheit ==
    /\ (result.op = "celsius_to_fahrenheit" /\ result.a \in (-20)..120) =>
          /\ result.status = "Ok"
          /\ result.val = Fahrenheit(result.a)
          /\ result.a = 31 => result.val = 87
          /\ result.a = 26 => result.val = 78
          /\ result.a = -20 => result.val = -4
    /\ (result.op = "convert_to_fahrenheit"
            /\ result.a \in (-20)..120 /\ result.b \in (-20)..120) =>
          /\ result.status = "Ok"
          /\ result.val.temperature_current =
                [value |-> Fahrenheit(result.a), unit |-> "Fahrenheit"]
          /\ result.val.temperature_low_threshold =
                [value |-> Fahrenheit(result.a), unit |-> "Fahrenheit"]
          /\ result.val.temperature_high_threshold =
                [value |-> Fahrenheit(result.b), unit |-> "Fahrenheit"]
          /\ result.val.temperature_current.value =
                celsius_to_fahrenheit(result.a)

\* -1 degree Celsius, where rounding toward zero and rounding down differ,
\* has been converted to 31 degrees Fahrenheit
C26_Witness ==
    /\ result.op = "celsius_to_fahrenheit"
    /\ result.a = -1 /\ result.val = 31

\* C27: for every 16-bit bitmap b and fan i in 1..=4,
\* parse_fan_status_bitmap(b)[i-1] is true exactly when bit i-1 of b is
\* set, parse_fan_fault_bitmap(b)[i-1] is Normal exactly when bit i-1 is
\* set and Fault otherwise; bits 4..15 affect neither result.
C27_FanBitmaps ==
    /\ result.op = "parse_fan_status_bitmap" =>
          /\ DOMAIN result.val = 1..4
          /\ \A i \in 1..4 :
                result.val[i] = ((result.a \div (2 ^ (i - 1))) % 2 = 1)
          /\ result.val = parse_fan_status_bitmap(result.a % 16)
    /\ result.op = "parse_fan_fault_bitmap" =>
          /\ DOMAIN result.val = 1..4
          /\ \A i \in 1..4 :
                result.val[i] =
                    IF (result.a \div (2 ^ (i - 1))) % 2 = 1
                    THEN "Normal" ELSE "Fault"
          /\ result.val = parse_fan_fault_bitmap(result.a % 16)

\* the bitmap 0xFFF5 (fans 1 and 3, every upper bit) has been parsed
C27_Witness ==
    /\ result.op = "parse_fan_status_bitmap"
    /\ result.a = 65525
    /\ result.val = <<TRUE, FALSE, TRUE, FALSE>>

\* ---------------------------------------------------------------- enums
\* C28: PwmFrequency is in bijection with the register indices 0..=5 and
\* with the frequencies 500, 1000, 2000, 5000, 10000, 25000 Hz: both round
\* trips return the frequency, from_register_value(v) is absent for v > 5
\* and from_hz(h) for every other h, and a successful set_pwm_frequency(f)
\* leaves register 0x000B = to_register_value(f).
C28_PwmFrequency ==
    /\ [](result.op = "pwm_register_round_trip" =>
             /\ result.val.back = result.val.freq
             /\ result.a \in 0..5
             /\ result.a = CASE result.val.freq = "Hz500" -> 0
                             [] result.val.freq = "Hz1000" -> 1
                             [] result.val.freq = "Hz2000" -> 2
                             [] result.val.freq = "Hz5000" -> 3
                             [] result.val.freq = "Hz10000" -> 4
                             [] result.val.freq = "Hz25000" -> 5)
    /\ [](result.op = "pwm_hz_round_trip" =>
             /\ result.val.back = result.val.freq
             /\ result.a = CASE result.val.freq = "Hz500" -> 500
                             [] result.val.freq = "Hz1000" -> 1000
                             [] result.val.freq = "Hz2000" -> 2000
                             [] result.val.freq = "Hz5000" -> 5000
                             [] result.val.freq = "Hz10000" -> 10000
                             [] result.val.freq = "Hz25000" -> 25000)
    /\ [](result.op = "pwm_from_register_value" =>
             ((result.val.freq = "None") <=> (result.a > 5)))
    /\ [](result.op = "pwm_from_hz" =>
             ((result.val.freq = "None") <=>
                 (result.a \notin {500, 1000, 2000, 5000, 10000, 25000})))
    /\ [][ \A f \in {"Hz500", "Hz1000", "Hz2000", "Hz5000", "Hz10000",
                    "Hz25000"} :
             (/\ result'.op = "set_pwm_frequency"
              /\ result'.status = "Ok"
              /\ SetPwmFrequency(f)) =>
                 /\ regs'[11] = CASE f = "Hz500" -> 0
                                  [] f = "Hz1000" -> 1
                                  [] f = "Hz2000" -> 2
                                  [] f = "Hz5000" -> 3
                                  [] f = "Hz10000" -> 4
                                  [] f = "Hz25000" -> 5
                 /\ \A r \in DOMAIN regs : r # 11 => regs'[r] = regs[r] ]_vars

\* set_pwm_frequency(Hz2000) has succeeded on a controller set to 25 kHz
C28_Witness ==
    /\ result.op = "set_pwm_frequency" /\ result.status = "Ok"
    /\ regs[11] = 2

\* C29: the operating mode maps to register 0x0003, Temperature to 0xFFFF
\* and Manual to 0x0000: a successful set_mode(m) leaves the register at
\* that value, and a status() that follows it reports mode m.
C29_OperatingMode ==
    [][ /\ \A m \in {"Temperature", "Manual"} :
             (/\ result'.op = "set_mode"
              /\ result'.status = "Ok"
              /\ SetMode(m)) =>
                 /\ regs'[3] = (IF m = "Temperature" THEN 65535 ELSE 0)
                 /\ result'.a = regs'[3]
                 /\ \A r \in DOMAIN regs : r # 3 => regs'[r] = regs[r]
        /\ (/\ result.op = "set_mode" /\ result.status = "Ok"
            /\ result'.op = "status" /\ result'.status = "Ok") =>
               result'.val.mode =
                   (IF result.a = 65535 THEN "Temperature" ELSE "Manual")
      ]_vars

\* status() has reported Manual right after a set_mode(Manual)
C29_Witness ==
    /\ result.op = "status" /\ result.status = "Ok"
    /\ result.val.mode = "Manual"
    /\ regs[3] = 0

\* C30: WorkMode is in bijection with the register values 0 (Shutdown)
\* and 1 (MinimumSpeed): the round trip returns the mode,
\* from_register_value(v) is absent for v >= 2, and a successful
\* set_eco(m) leaves register 0x0005 = to_register_value(m); set_eco
\* changes no other register.
C30_WorkMode ==
    /\ [](result.op = "work_mode_round_trip" =>
             /\ result.val.back = result.val.mode
             /\ result.a = (IF result.val.mode = "Shutdown" THEN 0 ELSE 1))
    /\ [](result.op = "work_mode_from_register_value" =>
             /\ (result.val.mode = "None") <=> (result.a >= 2)
             /\ result.a = 0 => result.val.mode = "Shutdown"
             /\ result.a = 1 => result.val.mode = "MinimumSpeed")
    /\ [][ \A m \in {"Shutdown", "MinimumSpeed"} :
             (result'.op = "set_eco" /\ SetEco(m)) =>
                 /\ result'.status = "Ok" =>
                       regs'[5] = (IF m = "Shutdown" THEN 0 ELSE 1)
                 /\ \A r \in DOMAIN regs : r # 5 => regs'[r] = regs[r]
                 /\ Len(calls') = 1 /\ calls'[1].addr = 5 ]_vars

\* set_eco(Shutdown) has succeeded on a controller in MinimumSpeed
C30_Witness ==
    /\ result.op = "set_eco" /\ result.status = "Ok"
    /\ regs[5] = 0

C32_Reset ==
    [][ result'.op = "reset" =>
          /\ Len(calls') = 1
          /\ calls'[1].kind = "write"
          /\ calls'[1].addr = 32 /\ calls'[1].arg = 170
          /\ result'.status = "Ok" => regs'[32] = 170
          /\ \A r \in DOMAIN regs : r # 32 => regs'[r] = regs[r]
          /\ backend' = backend /\ slave_addr' = slave_addr
          /\ context_slave' = context_slave /\ timeout' = timeout
          /\ inflight' = inflight ]_vars

\* reset() has succeeded and the sentinel is in register 0x0020
C32_Witness ==
    /\ result.op = "reset" /\ result.status = "Ok"
    /\ Len(calls) = 1
    /\ regs[32] = 170

\* ------------------------------------------------ conversions, any input
\* C33: encode_combined_temperature truncates each value plus 40 to 8 bits
\* before packing: the packed byte is (t + 40) mod 256 and no error is
\* raised; where t + 40 is outside 0..=255 parse_combined_temperature of
\* the result does not return t, and where it is inside the byte is t + 40
\* and t comes back.
C33_EncodeTruncates ==
    /\ result.op = "encode_combined_temperature" =>
          /\ result.status = "Ok"
          /\ result.val \div 256 = (result.a + 40) % 256
          /\ result.val % 256 = (result.b + 40) % 256
    /\ result.op = "parse_combined_temperature" =>
          /\ (result.val[1] = result.a) <=> (result.a + 40 \in 0..255)
          /\ (result.val[2] = result.b) <=> (result.b + 40 \in 0..255)

\* ------------------------------------------------- the threshold pair
\* set_temperature_threshold called with a valid pair
ValidPairStep ==
    /\ result'.op = "set_temperature_threshold"
    /\ result'.status \notin {"InvalidThresholds", "InvalidParameter"}

\* C34 as stated: with valid arguments the low register 0x000C is written
\* first and the high register 0x000D second; after a failed first write
\* the second is not attempted; after a successful first and a failed
\* second write the error is returned and the device holds the new low
\* with the old high.
C34_NewLowOldHigh ==
    [][ ValidPairStep =>
          /\ Len(calls') \in {1, 2}
          /\ IsWrite(calls'[1], 12, result'.a + 40)
          /\ calls'[1].out # "Ok" => Len(calls') = 1
          /\ calls'[1].out = "Ok" =>
                /\ Len(calls') = 2
                /\ IsWrite(calls'[2], 13, result'.b + 40)
                /\ calls'[2].out # "Ok" =>
                      /\ result'.status # "Ok"
                      /\ regs'[12] = result'.a + 40
                      /\ regs'[13] = regs[13] ]_vars

\* C34 amended: as above, except that after a successful first and a
\* failed second write the device holds the new low with the old high, or
\* with the new high when the second write failed for want of its response
\* (timeout or link error) after the device had acted on it; after a device
\* exception it is the old high.
C34_PartialThresholdWrite ==
    [][ ValidPairStep =>
          /\ Len(calls') \in {1, 2}
          /\ IsWrite(calls'[1], 12, result'.a + 40)
          /\ \A r \in DOMAIN regs : r \notin {12, 13} => regs'[r] = regs[r]
          /\ calls'[1].out # "Ok" =>
                /\ Len(calls') = 1
                /\ result'.status # "Ok"
                /\ regs'[13] = regs[13]
          /\ calls'[1].out = "Ok" =>
                /\ Len(calls') = 2
                /\ IsWrite(calls'[2], 13, result'.b + 40)
                /\ regs'[12] = result'.a + 40
                /\ calls'[2].out = "Ok" =>
                      result'.status = "Ok" /\ regs'[13] = result'.b + 40
                /\ calls'[2].out # "Ok" =>
                      /\ result'.status # "Ok"
                      /\ \/ regs'[13] = regs[13]
                         \/ /\ regs'[13] = result'.b + 40
                            /\ calls'[2].out \in {"Timeout", "Link"}
                      /\ calls'[2].out = "Exception" =>
                            regs'[13] = regs[13] ]_vars

\* set_temperature_threshold(50, 120) has failed at its second write: the
\* device holds the new low 50 with the old high 50
C34_Witness ==
    /\ result.op = "set_temperature_threshold" /\ result.status = "Modbus"
    /\ result.a = 50 /\ result.b = 120
    /\ Len(calls) = 2 /\ calls[2].out = "Exception"
    /\ regs[12] = 90 /\ regs[13] = 90

\* C39: in set_temperature_threshold the ordering check precedes the range
\* checks: a pair with high <= low is rejected with the threshold-ordering
\* error even when a value is outside -20..=120, and the invalid-parameter
\* error is returned only for pairs with high > low, naming the low value
\* when it is out of range and the high value otherwise.
C39_OrderingBeforeRange ==
    [][ result'.op = "set_temperature_threshold" =>
          /\ result'.b <= result'.a =>
                /\ result'.status = "InvalidThresholds"
                /\ calls' = <<>> /\ regs' = regs
          /\ result'.status = "InvalidParameter" =>
                /\ result'.b > result'.a
                /\ \/ result'.a \notin (-20)..120
                   \/ result'.b \notin (-20)..120
                /\ calls' = <<>> /\ regs' = regs
          /\ (/\ result'.b > result'.a
              /\ result'.a \notin (-20)..120) =>
                /\ result'.status = "InvalidParameter"
                /\ result'.val = <<"low">>
          /\ (/\ result'.b > result'.a
              /\ result'.a \in (-20)..120
              /\ result'.b \notin (-20)..120) =>
                /\ result'.status = "InvalidParameter"
                /\ result'.val = <<"high">> ]_vars

\* the pair (121, -21), out of order and both values out of range, has
\* been rejected with the threshold-ordering error
C39_Witness ==
    /\ result.op = "set_temperature_threshold"
    /\ result.a = 121 /\ result.b = -21
    /\ result.status = "InvalidThresholds"

\* ------------------------------------------------ a timed-out set_addr
\* what the client holds after set_addr(a) has timed out
TimedOutSetAddr(a) ==
    /\ result' = [op |-> "set_addr", a |-> a, b |-> 0, status |-> "Timeout",
                  val |-> <<>>]
    /\ Len(calls') = 1 /\ calls'[1].out = "Timeout"
    /\ slave_addr' = slave_addr

\* C35: a set_addr(a) that fails with Timeout leaves the cached address at
\* its old value, also when the device has applied the write; from every
\* state in which the device answers the client, set_addr(a) can time out
\* with the device at a and the cache elsewhere, and it can time out, with
\* the very same result for the client, with the device left where it was.
C35_TimedOutSetAddr ==
    /\ [][ (result'.op = "set_addr" /\ result'.status = "Timeout") =>
             /\ slave_addr' = slave_addr
             /\ Len(calls') = 1 /\ IsWrite(calls'[1], 2, result'.a)
             /\ regs'[2] \in {regs[2], result'.a} ]_vars
    /\ [](\A a \in {1, 2} :
            (/\ backend = "RealModbus" /\ inflight.kind = "none"
             /\ context_slave = regs[2]
             /\ regs[2] # a /\ slave_addr # a) =>
                /\ ENABLED (/\ SetAddr(a) /\ TimedOutSetAddr(a)
                            /\ regs'[2] = a /\ slave_addr' # regs'[2])
                /\ ENABLED (/\ SetAddr(a) /\ TimedOutSetAddr(a)
                            /\ regs' = regs))

\* set_addr(2) has timed out on a client created for address 1: the device
\* is at 2, the cache at 1
C35_Witness ==
    /\ result.op = "set_addr" /\ result.a = 2 /\ result.status = "Timeout"
    /\ Len(calls) = 1 /\ calls[1].out = "Timeout"
    /\ context_slave = 1 /\ slave_addr = 1
    /\ regs[2] = 2

\* ------------------------------------------------ speed and mode share 0x0003
\* C36: set_fan_speed(p) with p in 0..=100 issues its one write of p to
\* 0x0003 whatever the register holds, so the mode sentinel is overwritten;
\* a status() that follows a successful set_fan_speed reports Manual, also
\* when the controller was in Temperature mode before; and a successful
\* set_mode(Manual) leaves 0 in the register, whatever speed it held.
C36_SpeedSharesModeRegister ==
    /\ [][ (result'.op = "set_fan_speed" /\ result'.a <= 100) =>
             /\ Len(calls') = 1 /\ IsWrite(calls'[1], 3, result'.a)
             /\ result'.status = "Ok" => regs'[3] = result'.a ]_vars
    /\ [][ (/\ result.op = "set_fan_speed" /\ result.status = "Ok"
            /\ result'.op = "status" /\ result'.status = "Ok") =>
             result'.val.mode = "Manual" ]_vars
    /\ [][ (/\ result'.op = "set_mode" /\ result'.a = 0
            /\ result'.status = "Ok") => regs'[3] = 0 ]_vars

\* status() reports Manual on a controller whose register 0x0003 holds the
\* speed 50 that set_fan_speed stored over the Temperature sentinel
C36_Witness ==
    /\ result.op = "status" /\ result.status = "Ok"
    /\ result.val.mode = "Manual"
    /\ regs[3] = 50

\* ------------------------------------------------ the reads of status()
\* the four requests of status(), as start address and count
StatusReqs == <<<<0, 15>>, <<1, 1>>, <<7, 4>>, <<14, 1>>>>

\* C37: status() issues the reads of 15 registers from 0x0000, 1 at
\* 0x0001, 4 from 0x0007 and 1 at 0x000E, in this order; when all four
\* succeed it returns the structure, and when one fails it is the last one
\* issued, its error is returned and no structure is.
C37_StatusReads ==
    [][ result'.op = "status" =>
          LET n == Len(calls') IN
          /\ n \in 1..4
          /\ \A i \in 1..n :
                IsRead(calls'[i], StatusReqs[i][1], StatusReqs[i][2])
          /\ \A i \in 1..(n - 1) : calls'[i].out = "Ok"
          /\ IF calls'[n].out = "Ok"
             THEN n = 4 /\ result'.status = "Ok"
             ELSE /\ result'.status = ErrorOf(calls'[n].out)
                  /\ result'.val = <<>> ]_vars

\* C38: a status() whose reads all succeed returns Ok whatever the
\* registers hold: a PWM register outside 0..=5 is reported as 25000 Hz, a
\* register 0x0003 other than 0xFFFF as Manual, and a register 0x0005
\* other than 1 gives the eco_mode that 0 gives.
C38_StatusDecodesAnything ==
    [][ (/\ result'.op = "status"
         /\ \A i \in 1..Len(calls') : calls'[i].out = "Ok") =>
          /\ result'.status = "Ok"
          /\ ~(regs[11] \in 0..5) => result'.val.pwm_frequency = "Hz25000"
          /\ regs[3] # 65535 => result'.val.mode = "Manual"
          /\ regs[5] # 1 =>
                result'.val.eco_mode = ControllerStatus(
                    [i \in 1..15 |-> IF i = 6 THEN 0 ELSE regs[i - 1]],
                    <<>>).eco_mode ]_vars

====
